---------------------------- MODULE Spec2Model ----------------------------
(***************************************************************************)
(* SonicTransfer (v2.5): acoustic file transfer.  A sender session reads a *)
(* file, optionally compresses it, chunks it and plays META / DATA / END   *)
(* frames as chords; a receiver session demodulates chords tick by tick,   *)
(* hunts for the sync pattern, assembles packet bytes and reassembles the  *)
(* file.  Strings are sequences of character codes, bit strings are        *)
(* sequences of 0/1, byte arrays are sequences of 0..255.                  *)
(***************************************************************************)
EXTENDS Integers, Sequences, FiniteSets, TLC

(***************************************************************************)
(* Bounds of the model.                                                    *)
(***************************************************************************)
MaxDeliveries == 4
MaxLzLen == 4
MaxListens == 2
MaxSends == 2
MaxAllBits == 6
MaxBits == 34
MaxSumLen == 4
MaxTicks == 3
MaxFrames == 6
MaxToneTicks == 3340
MaxNameLen == 3
MaxRun == 40

(***************************************************************************)
(* CONFIG and SPEED_PROFILES.                                              *)
(***************************************************************************)
ProfileNames == {"STANDARD", "FAST", "ULTRA", "EXTREME"}

SPEED_PROFILES ==
  [ STANDARD |-> [NUM_CHANNELS |-> 4,  CHANNEL_SPACING |-> 400,
                  BITS_PER_SYMBOL |-> 1, USE_BASE64 |-> TRUE,
                  SYMBOL_DURATION |-> 40],
    FAST     |-> [NUM_CHANNELS |-> 8,  CHANNEL_SPACING |-> 200,
                  BITS_PER_SYMBOL |-> 2, USE_BASE64 |-> FALSE,
                  SYMBOL_DURATION |-> 20],
    ULTRA    |-> [NUM_CHANNELS |-> 12, CHANNEL_SPACING |-> 133,
                  BITS_PER_SYMBOL |-> 2, USE_BASE64 |-> FALSE,
                  SYMBOL_DURATION |-> 15],
    EXTREME  |-> [NUM_CHANNELS |-> 16, CHANNEL_SPACING |-> 100,
                  BITS_PER_SYMBOL |-> 3, USE_BASE64 |-> FALSE,
                  SYMBOL_DURATION |-> 10] ]

SAMPLE_RATE == 44100
FFT_SIZE == 8192
FREQ_MIN == 2000
FREQ_MAX == 10000
FSK_DEVIATION == 100
CHUNK_SIZE == 128
SIGNAL_THRESHOLD == 80
MAX_RETRIES == 3
USE_COMPRESSION == TRUE
COMPRESSION_MIN_SIZE == 512
windowSize == 4096
lookaheadSize == 18

(***************************************************************************)
(* Small helpers on sequences and numbers.                                 *)
(***************************************************************************)
Min(a, b) == IF a < b THEN a ELSE b
Max(a, b) == IF a > b THEN a ELSE b
CeilDiv(a, b) == (a + b - 1) \div b

RECURSIVE Pow2(_)
Pow2(n) == IF n = 0 THEN 1 ELSE 2 * Pow2(n - 1)

\* s.slice(from) with a 0-based start
SliceFrom(s, from) == SubSeq(s, from + 1, Len(s))
\* s.slice(from, to) with 0-based bounds, to exclusive
Slice(s, from, to) == SubSeq(s, from + 1, Min(to, Len(s)))

\* the index of the last occurrence
IndexOfLast(s, pat) ==
  LET hits == {i \in 1..(Len(s) - Len(pat) + 1) :
                  \A j \in 1..Len(pat) : s[i + j - 1] = pat[j]}
  IN IF hits = {} THEN -1
     ELSE (CHOOSE i \in hits : \A k \in hits : k <= i) - 1

\* s.indexOf(pat) as a 0-based index, -1 when absent
IndexOf(s, pat) ==
  LET hits == {i \in 1..(Len(s) - Len(pat) + 1) :
                  \A j \in 1..Len(pat) : s[i + j - 1] = pat[j]}
  IN IF hits = {} THEN -1
     ELSE (CHOOSE i \in hits : \A k \in hits : i <= k) - 1

Includes(s, pat) == IndexOf(s, pat) /= -1
StartsWith(s, pat) ==
  Len(s) >= Len(pat) /\ \A j \in 1..Len(pat) : s[j] = pat[j]

\* A loop `for (k = lo; k <= hi; k++) acc = Step(acc, k)`, evaluated by
\* halving the range so that the evaluation stays shallow.
RECURSIVE FoldRange(_, _, _, _)
FoldRange(Step(_, _), acc, lo, hi) ==
  IF lo > hi THEN acc
  ELSE IF lo = hi THEN Step(acc, lo)
  ELSE LET mid == (lo + hi) \div 2
           left == FoldRange(Step, acc, lo, mid)
       IN IF left = left THEN FoldRange(Step, left, mid + 1, hi) ELSE left

\* the concatenation ss[lo] \o ... \o ss[hi]
RECURSIVE ConcatRange(_, _, _)
ConcatRange(ss, lo, hi) ==
  IF lo > hi THEN <<>>
  ELSE IF lo = hi THEN ss[lo]
  ELSE ConcatRange(ss, lo, (lo + hi) \div 2)
         \o ConcatRange(ss, ((lo + hi) \div 2) + 1, hi)

Concat(ss) == ConcatRange(ss, 1, Len(ss))

(***************************************************************************)
(* Character codes and the literal strings of the protocol.                *)
(***************************************************************************)
Ch0 == 48
Ch1 == 49
ChColon == 58
ChQuote == 34
ChComma == 44
ChLBrace == 123
ChRBrace == 125
ChMinus == 45
ChPlus == 43
ChSlash == 47
ChEq == 61
StrMETA == <<77, 69, 84, 65, 58>>
StrDATA == <<68, 65, 84, 65, 58>>
StrEND == <<69, 78, 68, 58>>
StrENDCOMPLETE == <<69, 78, 68, 58, 67, 79, 77, 80, 76, 69, 84, 69>>
StrTrue == <<116, 114, 117, 101>>
StrFalse == <<102, 97, 108, 115, 101>>
StrBase64 == <<98, 97, 115, 101, 54, 52>>
StrBinary == <<98, 105, 110, 97, 114, 121>>
WhiteSpace == {9, 10, 11, 12, 13, 32}
Digits == 48..57

\* Number.prototype.toString(10) for a non-negative integer
RECURSIVE DecStr(_)
DecStr(n) == IF n < 10 THEN <<48 + n>> ELSE DecStr(n \div 10) \o <<48 + (n % 10)>>

\* Number.prototype.toString(2) for a non-negative integer
RECURSIVE BinStr(_)
BinStr(n) == IF n < 2 THEN <<n>> ELSE BinStr(n \div 2) \o <<n % 2>>

\* padStart(8, '0') of a bit string
PadStart8(b) == IF Len(b) >= 8 THEN b ELSE [i \in 1..(8 - Len(b)) |-> 0] \o b

\* parseInt(byteBits, 2) of a bit string
RECURSIVE BitsVal(_, _)
BitsVal(b, n) == IF n = 0 THEN 0 ELSE 2 * BitsVal(b, n - 1) + b[n]

(***************************************************************************)
(* Integrity: additive checksum and CRC-16.                                *)
(***************************************************************************)
RECURSIVE BitXor(_, _)
BitXor(a, b) ==
  IF a = 0 THEN b
  ELSE IF b = 0 THEN a
  ELSE (((a % 2) + (b % 2)) % 2) + 2 * BitXor(a \div 2, b \div 2)

\* a sum that is never masked
calculateChecksumUnmasked(data) ==
  FoldRange(LAMBDA checksum, i : checksum + data[i], 0, 1, Len(data))

calculateChecksum(data) ==
  FoldRange(LAMBDA checksum, i : (checksum + data[i]) % 65536, 0, 1, Len(data))

crc16(data) ==
  FoldRange(LAMBDA crc, i :
              FoldRange(LAMBDA c, j :
                          IF c % 2 = 1 THEN BitXor(c \div 2, 40961)
                          ELSE c \div 2,
                        BitXor(crc, data[i]), 1, 8),
            65535, 1, Len(data))

(***************************************************************************)
(* Payload encodings: BinaryEncoder and Base64 (btoa / atob).              *)
(***************************************************************************)
\* BinaryEncoder.encodeDataToBinary: every byte as 8 characters '0'/'1'
encodeDataToBinary(data) ==
  [k \in 1..(8 * Len(data)) |->
      Ch0 + ((data[((k - 1) \div 8) + 1] \div Pow2(7 - ((k - 1) % 8))) % 2)]

\* parseInt(byte, 2) of 8 characters: leading '0'/'1' characters are read,
\* the first other character ends the number, none at all gives NaN (which
\* a Uint8Array stores as 0)
RECURSIVE parseBin(_, _, _)
parseBin(str, k, acc) ==
  IF k > Len(str) \/ str[k] \notin {Ch0, Ch1} THEN acc
  ELSE parseBin(str, k + 1, 2 * acc + (str[k] - Ch0))

\* BinaryEncoder.decodeBinaryToData: whole groups of 8 characters only
decodeBinaryToData(binary) ==
  [k \in 1..(Len(binary) \div 8) |->
      parseBin(SubSeq(binary, 8 * (k - 1) + 1, 8 * k), 1, 0) % 256]

B64Char(v) ==
  IF v < 26 THEN 65 + v
  ELSE IF v < 52 THEN 97 + (v - 26)
  ELSE IF v < 62 THEN 48 + (v - 52)
  ELSE IF v = 62 THEN ChPlus ELSE ChSlash

B64Alphabet == (65..90) \cup (97..122) \cup (48..57) \cup {ChPlus, ChSlash}

B64Val(c) ==
  IF c \in 65..90 THEN c - 65
  ELSE IF c \in 97..122 THEN c - 97 + 26
  ELSE IF c \in 48..57 THEN c - 48 + 52
  ELSE IF c = ChPlus THEN 62 ELSE 63

\* btoa(String.fromCharCode.apply(null, chunk))
btoa(bytes) ==
  LET n == Len(bytes)
      B(i) == IF i <= n THEN bytes[i] ELSE 0
      group(g) ==
        LET b1 == B(3 * g + 1)  b2 == B(3 * g + 2)  b3 == B(3 * g + 3)
            v == b1 * 65536 + b2 * 256 + b3
        IN << B64Char(v \div 262144),
              B64Char((v \div 4096) % 64),
              IF 3 * g + 2 <= n THEN B64Char((v \div 64) % 64) ELSE ChEq,
              IF 3 * g + 3 <= n THEN B64Char(v % 64) ELSE ChEq >>
  IN [k \in 1..(4 * CeilDiv(n, 3)) |-> group((k - 1) \div 4)[((k - 1) % 4) + 1]]

\* atob(str): ok = FALSE stands for the InvalidCharacterError it throws
atob(str) ==
  LET nows == SelectSeq(str, LAMBDA c : c \notin WhiteSpace)
      n0 == Len(nows)
      core == IF n0 > 0 /\ n0 % 4 = 0 /\ nows[n0] = ChEq
              THEN IF n0 > 1 /\ nows[n0 - 1] = ChEq
                   THEN SubSeq(nows, 1, n0 - 2)
                   ELSE SubSeq(nows, 1, n0 - 1)
              ELSE nows
      n == Len(core)
      V(i) == IF i <= n THEN B64Val(core[i]) ELSE 0
      group(g) == V(4 * g + 1) * 262144 + V(4 * g + 2) * 4096
                  + V(4 * g + 3) * 64 + V(4 * g + 4)
      nbytes == (n * 6) \div 8
  IN IF n % 4 = 1 \/ \E i \in 1..n : core[i] \notin B64Alphabet
     THEN [ok |-> FALSE, val |-> <<>>]
     ELSE [ok |-> TRUE,
           val |-> [k \in 1..nbytes |->
                      (group((k - 1) \div 3)
                          \div Pow2(8 * (2 - ((k - 1) % 3)))) % 256]]

(***************************************************************************)
(* LZCompressor.                                                           *)
(***************************************************************************)
\* the inner while loop of compress: length of the match of input at the
\* 0-based positions i and pos
RECURSIVE MatchLength(_, _, _, _)
MatchLength(input, i, pos, length) ==
  IF length < lookaheadSize /\ pos + length < Len(input)
     /\ input[i + length + 1] = input[pos + length + 1]
  THEN MatchLength(input, i, pos, length + 1)
  ELSE length

\* the for loop of compress: the first candidate with the greatest length
LongestMatch(input, pos) ==
  LET searchStart == Max(0, pos - windowSize)
      lens == [i \in searchStart..(pos - 1) |-> MatchLength(input, i, pos, 0)]
      best == IF pos = searchStart THEN 0
              ELSE CHOOSE l \in {lens[i] : i \in searchStart..(pos - 1)} :
                     \A i \in searchStart..(pos - 1) : lens[i] <= l
      at == IF best = 0 THEN pos
            ELSE CHOOSE i \in searchStart..(pos - 1) :
                   /\ lens[i] = best
                   /\ \A k \in searchStart..(i - 1) : lens[k] < best
  IN [matchLength |-> best, matchDistance |-> IF best = 0 THEN 0 ELSE pos - at]

\* the while loop of compress: st.pos is the cursor, positions below it
\* are already encoded
compressStep(input, st, k) ==
  IF k < st.pos THEN st
  ELSE LET m == LongestMatch(input, k)
       IN IF m.matchLength >= 3
          THEN [pos |-> k + m.matchLength,
                output |-> st.output \o << 255, (m.matchDistance \div 256) % 256,
                                           m.matchDistance % 256,
                                           m.matchLength >>]
          ELSE [pos |-> k + 1, output |-> Append(st.output, input[k + 1])]

compress(data) ==
  FoldRange(LAMBDA st, k : compressStep(data, st, k),
            [pos |-> 0,
             output |-> << (Len(data) \div 16777216) % 256,
                           (Len(data) \div 65536) % 256,
                           (Len(data) \div 256) % 256, Len(data) % 256 >>],
            0, Len(data) - 1).output

\* the copy loop reading a copy of the output taken before the loop
copyMatchSnapshot(output, matchStart, length) ==
  output \o [i \in 1..length |->
               IF matchStart + i - 1 >= 0 /\ matchStart + i - 1 < Len(output)
               THEN output[matchStart + i] ELSE 0]

\* the copy loop of a match; an index outside the output reads undefined,
\* which the Uint8Array of the result stores as 0
copyMatch(output, matchStart, length) ==
  FoldRange(LAMBDA out, i :
              Append(out, IF matchStart + i >= 0 /\ matchStart + i < Len(out)
                          THEN out[matchStart + i + 1] ELSE 0),
            output, 0, length - 1)

\* the while loop of decompress: st.pos is the read position
decompressStep(input, originalSize, st, k) ==
  IF k < st.pos \/ Len(st.output) >= originalSize THEN st
  ELSE IF input[k + 1] = 255 /\ k + 3 < Len(input)
       THEN [pos |-> k + 4,
             output |-> copyMatch(st.output,
                                  Len(st.output)
                                    - (input[k + 2] * 256 + input[k + 3]),
                                  input[k + 4])]
       ELSE [pos |-> k + 1, output |-> Append(st.output, input[k + 1])]

\* a missing header byte is undefined, which the shifts read as 0; the
\* header is a signed 32-bit integer, negative when its first byte has the
\* high bit set
decompress(data) ==
  LET H(i) == IF i <= Len(data) THEN data[i] ELSE 0
      originalSize == (IF H(1) >= 128 THEN H(1) - 256 ELSE H(1)) * 16777216
                      + H(2) * 65536 + H(3) * 256 + H(4)
      output == FoldRange(LAMBDA st, k : decompressStep(data, originalSize, st, k),
                          [pos |-> 4, output |-> <<>>], 4, Len(data) - 1).output
  IN SubSeq(output, 1, Min(originalSize, Len(output)))

(***************************************************************************)
(* JSON.stringify of the metadata object and JSON.parse of a META body.    *)
(* A parsed object is a sequence of <<key, token>> pairs; a token is       *)
(* [t |-> "str" | "num" | "lit", v |-> its characters].  The model's texts *)
(* are compact flat objects or damaged copies of them: no white space, no  *)
(* nesting, no escapes.                                                    *)
(***************************************************************************)
KeyFilename == <<102, 105, 108, 101, 110, 97, 109, 101>>
KeySize == <<115, 105, 122, 101>>
KeyOriginalSize == <<111, 114, 105, 103, 105, 110, 97, 108, 83, 105, 122, 101>>
KeyCompressed == <<99, 111, 109, 112, 114, 101, 115, 115, 101, 100>>
KeyChecksum == <<99, 104, 101, 99, 107, 115, 117, 109>>
KeyCrc == <<99, 114, 99>>
KeyChunks == <<99, 104, 117, 110, 107, 115>>
KeyTimestamp == <<116, 105, 109, 101, 115, 116, 97, 109, 112>>
KeyUseAck == <<117, 115, 101, 65, 99, 107>>
KeyEncoding == <<101, 110, 99, 111, 100, 105, 110, 103>>
StrNull == <<110, 117, 108, 108>>

Quoted(str) == <<ChQuote>> \o str \o <<ChQuote>>
BoolStr(b) == IF b THEN StrTrue ELSE StrFalse

\* JSON.stringify(metadata), keys in the order the object literal lists them
stringify(m) ==
  <<ChLBrace>>
    \o Quoted(KeyFilename) \o <<ChColon>> \o Quoted(m.filename) \o <<ChComma>>
    \o Quoted(KeySize) \o <<ChColon>> \o DecStr(m.size) \o <<ChComma>>
    \o Quoted(KeyOriginalSize) \o <<ChColon>> \o DecStr(m.originalSize) \o <<ChComma>>
    \o Quoted(KeyCompressed) \o <<ChColon>> \o BoolStr(m.compressed) \o <<ChComma>>
    \o Quoted(KeyChecksum) \o <<ChColon>> \o DecStr(m.checksum) \o <<ChComma>>
    \o Quoted(KeyCrc) \o <<ChColon>> \o DecStr(m.crc) \o <<ChComma>>
    \o Quoted(KeyChunks) \o <<ChColon>> \o DecStr(m.chunks) \o <<ChComma>>
    \o Quoted(KeyTimestamp) \o <<ChColon>> \o m.timestamp \o <<ChComma>>
    \o Quoted(KeyUseAck) \o <<ChColon>> \o BoolStr(m.useAck) \o <<ChComma>>
    \o Quoted(KeyEncoding) \o <<ChColon>> \o Quoted(m.encoding)
    \o <<ChRBrace>>

\* a number, true, false or null written without quotes
IsInteger(tok) ==
  LET d == IF tok /= <<>> /\ tok[1] = ChMinus THEN Tail(tok) ELSE tok
  IN /\ d /= <<>>
     /\ \A i \in 1..Len(d) : d[i] \in Digits
     /\ Len(d) > 1 => d[1] /= Ch0

BareToken(tok) ==
  IF IsInteger(tok) THEN [ok |-> TRUE, tok |-> [t |-> "num", v |-> tok]]
  ELSE IF tok \in {StrTrue, StrFalse, StrNull}
       THEN [ok |-> TRUE, tok |-> [t |-> "lit", v |-> tok]]
       ELSE [ok |-> FALSE, tok |-> [t |-> "lit", v |-> tok]]

\* one character of the parse; mode "fail" is the SyntaxError
parseStep(st, c) ==
  LET fail == [st EXCEPT !.mode = "fail"]
      endValue(tok, nextMode) ==
        [st EXCEPT !.mode = nextMode, !.cur = <<>>,
                   !.pairs = Append(st.pairs, <<st.key, tok>>)]
  IN CASE st.mode = "start" ->
            IF c = ChLBrace THEN [st EXCEPT !.mode = "first"] ELSE fail
       [] st.mode = "first" ->
            IF c = ChQuote THEN [st EXCEPT !.mode = "key", !.cur = <<>>]
            ELSE IF c = ChRBrace THEN [st EXCEPT !.mode = "end"] ELSE fail
       [] st.mode = "key0" ->
            IF c = ChQuote THEN [st EXCEPT !.mode = "key", !.cur = <<>>] ELSE fail
       [] st.mode = "key" ->
            IF c = ChQuote THEN [st EXCEPT !.mode = "colon", !.key = st.cur]
            ELSE [st EXCEPT !.cur = Append(st.cur, c)]
       [] st.mode = "colon" ->
            IF c = ChColon THEN [st EXCEPT !.mode = "val0", !.cur = <<>>] ELSE fail
       [] st.mode = "val0" ->
            IF c = ChQuote THEN [st EXCEPT !.mode = "str", !.cur = <<>>]
            ELSE IF c \in {ChComma, ChRBrace} THEN fail
            ELSE [st EXCEPT !.mode = "bare", !.cur = <<c>>]
       [] st.mode = "str" ->
            IF c = ChQuote THEN endValue([t |-> "str", v |-> st.cur], "next")
            ELSE [st EXCEPT !.cur = Append(st.cur, c)]
       [] st.mode = "bare" ->
            IF c \in {ChComma, ChRBrace}
            THEN IF BareToken(st.cur).ok
                 THEN endValue(BareToken(st.cur).tok,
                               IF c = ChComma THEN "key0" ELSE "end")
                 ELSE fail
            ELSE [st EXCEPT !.cur = Append(st.cur, c)]
       [] st.mode = "next" ->
            IF c = ChComma THEN [st EXCEPT !.mode = "key0"]
            ELSE IF c = ChRBrace THEN [st EXCEPT !.mode = "end"] ELSE fail
       [] OTHER -> fail

\* JSON.parse(text): ok = FALSE stands for the SyntaxError it throws
parse(text) ==
  LET st == FoldRange(LAMBDA acc, k : parseStep(acc, text[k]),
                      [mode |-> "start", cur |-> <<>>, key |-> <<>>,
                       pairs |-> <<>>],
                      1, Len(text))
  IN [ok |-> st.mode = "end", obj |-> st.pairs]

\* obj[key]: the last pair with that key wins; undefined when there is none
Undefined == [t |-> "undefined", v |-> <<>>]
Field(obj, key) ==
  LET at == {i \in 1..Len(obj) : obj[i][1] = key}
  IN IF at = {} THEN Undefined
     ELSE obj[CHOOSE i \in at : \A k \in at : k <= i][2]

\* the value of a number token
NumVal(tok) ==
  LET d == IF tok.v[1] = ChMinus THEN Tail(tok.v) ELSE tok.v
      n == FoldRange(LAMBDA acc, k : 10 * acc + (d[k] - Ch0), 0, 1, Len(d))
  IN IF tok.v[1] = ChMinus THEN 0 - n ELSE n

\* a token as a loop bound or a map size: undefined compares as NaN, so a
\* loop `i < undefined` runs no iteration, as with 0
AsCount(tok) == IF tok.t = "num" THEN NumVal(tok) ELSE 0

\* a token in a condition: undefined, 0, "", false and null are falsy
Truthy(tok) ==
  CASE tok.t = "undefined" -> FALSE
    [] tok.t = "num" -> NumVal(tok) /= 0
    [] tok.t = "str" -> tok.v /= <<>>
    [] OTHER -> tok.v = StrTrue

(***************************************************************************)
(* Framing and modulation (sender side).                                   *)
(***************************************************************************)
SyncPattern == <<1, 0, 1, 0, 1, 0, 1, 0>>
EndPattern == <<0, 1, 0, 1, 0, 1, 0, 1>>

\* encodeToBinary: charCodeAt(i).toString(2).padStart(8, '0') per character
encodeToBinary(message) ==
  Concat([i \in 1..Len(message) |-> PadStart8(BinStr(message[i]))])

\* the frame sendPacket builds
Frame(message) == SyncPattern \o encodeToBinary(message) \o EndPattern

NUM_CHANNELS(profile) == SPEED_PROFILES[profile].NUM_CHANNELS
CHANNEL_SPACING(profile) == SPEED_PROFILES[profile].CHANNEL_SPACING
BITS_PER_SYMBOL(profile) == SPEED_PROFILES[profile].BITS_PER_SYMBOL
USE_BASE64(profile) == SPEED_PROFILES[profile].USE_BASE64
SYMBOL_DURATION(profile) == SPEED_PROFILES[profile].SYMBOL_DURATION

\* streams[channelIdx] += binaryString[i] for channelIdx = i % NUM_CHANNELS
\* (ch is 0-based)
Stream(binaryString, ch, n) ==
  [k \in 1..((Len(binaryString) + n - 1 - ch) \div n) |->
      binaryString[(k - 1) * n + ch + 1]]

Streams(binaryString, n) == [c \in 1..n |-> Stream(binaryString, c - 1, n)]

MaxLen(streams) ==
  IF streams = <<>> THEN 0
  ELSE CHOOSE l \in {Len(streams[c]) : c \in 1..Len(streams)} :
         \A c \in 1..Len(streams) : Len(streams[c]) <= l

PadTo(stream, len) ==
  stream \o [k \in 1..(len - Len(stream)) |-> 0]

\* a PHASE_MAP lookup after padEnd with '1'
PhaseOfPadOne(sliceBits, bps) ==
  LET padded == sliceBits \o [k \in 1..(bps - Len(sliceBits)) |-> 1]
  IN BitsVal(padded, bps) * (IF bps = 2 THEN 90 ELSE 45)

\* QPSKModulator.modulate / PSK8Modulator.modulate: slices of bps bits,
\* padEnd with '0', mapped through PHASE_MAP (the phase in degrees)
PhaseOf(sliceBits, bps) ==
  LET padded == PadTo(sliceBits, bps)
  IN BitsVal(padded, bps) * (IF bps = 2 THEN 90 ELSE 45)

modulate(stream, bps) ==
  [k \in 1..CeilDiv(Len(stream), bps) |->
      PhaseOf(SubSeq(stream, bps * (k - 1) + 1, Min(bps * k, Len(stream))), bps)]

\* QPSKModulator.demodulate / PSK8Modulator.demodulate: each phase looked up
\* in the reversed PHASE_MAP, a phase that is not in it read as zeros
demodulate(symbols, bps) ==
  LET step == IF bps = 2 THEN 90 ELSE 45
      known(phase) == phase % step = 0 /\ phase >= 0 /\ phase < 360
      bitsOf(phase) ==
        [k \in 1..bps |->
           IF known(phase) THEN ((phase \div step) \div Pow2(bps - k)) % 2 ELSE 0]
  IN Concat([i \in 1..Len(symbols) |-> bitsOf(symbols[i])])

\* what the channels carry, slot by slot and within a slot by ascending
\* channel: the bit of an FSK tone, the bits of a PSK symbol; a channel
\* whose stream has ended carries nothing
reinterleave(symbolStreams, bps) ==
  LET carried(c, k) ==
        IF k > Len(symbolStreams[c]) THEN <<>>
        ELSE IF bps = 1 THEN << symbolStreams[c][k] >>
        ELSE demodulate(<< symbolStreams[c][k] >>, bps)
      slot(k) == Concat([c \in 1..Len(symbolStreams) |-> carried(c, k)])
  IN Concat([k \in 1..MaxLen(symbolStreams) |-> slot(k)])

\* transmitBinaryFSK: streams padded with '0' to the longest
SymbolsFSK(binaryString, n) ==
  LET streams == Streams(binaryString, n)
  IN [c \in 1..n |-> PadTo(streams[c], MaxLen(streams))]

\* transmitBinaryQPSK: an odd stream gets one '0', then modulate
SymbolsQPSK(binaryString, n) ==
  LET streams == Streams(binaryString, n)
  IN [c \in 1..n |->
        modulate(IF Len(streams[c]) % 2 /= 0 THEN Append(streams[c], 0)
                 ELSE streams[c], 2)]

\* transmitBinary8PSK: streams padded with '0' to a multiple of 3, then modulate
Symbols8PSK(binaryString, n) ==
  LET streams == Streams(binaryString, n)
  IN [c \in 1..n |->
        modulate(PadTo(streams[c], 3 * CeilDiv(Len(streams[c]), 3)), 3)]

\* transmitBinaryChord: the per-channel symbol streams of a frame
transmitBinaryChord(binaryString, profile) ==
  IF BITS_PER_SYMBOL(profile) = 1
  THEN SymbolsFSK(binaryString, NUM_CHANNELS(profile))
  ELSE IF BITS_PER_SYMBOL(profile) = 2
       THEN SymbolsQPSK(binaryString, NUM_CHANNELS(profile))
       ELSE Symbols8PSK(binaryString, NUM_CHANNELS(profile))

\* the tones of slot symbolIdx (0-based): playChord for FSK, playQPSKChord /
\* play8PSKChord for PSK (a channel whose stream has ended plays nothing)
ChordOf(symbolStreams, symbolIdx, profile, frequencies) ==
  IF BITS_PER_SYMBOL(profile) = 1
  THEN {[freq |-> IF symbolStreams[c][symbolIdx + 1] = 1
                  THEN frequencies[c] + FSK_DEVIATION
                  ELSE frequencies[c] - FSK_DEVIATION,
         phase |-> 0] : c \in 1..NUM_CHANNELS(profile)}
  ELSE {[freq |-> frequencies[c], phase |-> symbolStreams[c][symbolIdx + 1]] :
          c \in {d \in 1..Len(symbolStreams) : symbolIdx < Len(symbolStreams[d])}}

\* sendPreamble: a chord of the carriers themselves
PreambleChord(frequencies) ==
  {[freq |-> frequencies[c], phase |-> 0] : c \in 1..Len(frequencies)}

(***************************************************************************)
(* Calibration.                                                            *)
(***************************************************************************)
BinCount == FFT_SIZE \div 2
BinOf(freq) == (freq * BinCount) \div (SAMPLE_RATE \div 2)

\* the averaged spectrum of an ambient: "quiet" is silence, "hum" has
\* magnitude 40 below 3 kHz, "pink" falls off steadily towards the high bins
Ambients == {"quiet", "hum", "pink"}
AvgSpectrum(ambient, bin) ==
  IF ambient = "hum" THEN (IF bin < BinOf(3000) THEN 40 ELSE 0)
  ELSE IF ambient = "pink" THEN (BinCount - bin) \div 16
  ELSE 0

\* analyzeCalibrationData: the candidate bases in steps of 50 Hz, the sum of
\* the noise at the channels' bins (the average times NUM_CHANNELS), the
\* first candidate with the least noise (the sort is stable)
\* a search that runs up to FREQ_MAX itself
CandidateBasesToMax(profile) ==
  {f \in FREQ_MIN..FREQ_MAX : (f - FREQ_MIN) % 50 = 0}

CandidateBases(profile) ==
  {f \in FREQ_MIN..(FREQ_MAX - NUM_CHANNELS(profile) * CHANNEL_SPACING(profile)) :
      (f - FREQ_MIN) % 50 = 0}

NoiseAt(ambient, profile, base) ==
  FoldRange(LAMBDA acc, ch :
              acc + AvgSpectrum(ambient, BinOf(base + ch * CHANNEL_SPACING(profile))),
            0, 0, NUM_CHANNELS(profile) - 1)

analyzeCalibrationData(ambient, profile) ==
  LET cands == CandidateBases(profile)
      noise == [f \in cands |-> NoiseAt(ambient, profile, f)]
      baseFreq == CHOOSE f \in cands :
                    \A g \in cands : noise[f] < noise[g]
                                     \/ (noise[f] = noise[g] /\ f <= g)
  IN [i \in 1..NUM_CHANNELS(profile) |->
        baseFreq + (i - 1) * CHANNEL_SPACING(profile)]

(***************************************************************************)
(* Receiver: packet protocol and reassembly.  rx is the receiver's state   *)
(* as a record of its globals; the operators return the state the function *)
(* leaves.  totalBytesReceived counts eighths of a byte: the binary branch *)
(* adds encodedData.length / 8, which need not be whole.                   *)
(***************************************************************************)
NoMetadata == [present |-> FALSE, obj |-> <<>>]
NoData == [present |-> FALSE, bytes |-> <<>>]
EmptyMap == [i \in {} |-> <<>>]

\* packet.replace(/\x00/g, '').trim()
Trim(str) ==
  LET keep == {i \in 1..Len(str) : str[i] \notin WhiteSpace}
  IN IF keep = {} THEN <<>>
     ELSE SubSeq(str, CHOOSE i \in keep : \A k \in keep : i <= k,
                      CHOOSE i \in keep : \A k \in keep : k <= i)

StripNul(str) == SelectSeq(str, LAMBDA c : c /= 0)

\* parseInt(str): white space, an optional sign, then the leading decimal
\* digits; nan when there is no digit
parseInt(str) ==
  LET lead == {i \in 1..Len(str) : str[i] \notin WhiteSpace}
      from == IF lead = {} THEN Len(str) + 1
              ELSE CHOOSE i \in lead : \A k \in lead : i <= k
      signed == from <= Len(str) /\ str[from] \in {ChMinus, ChPlus}
      d0 == IF signed THEN from + 1 ELSE from
      stops == {i \in d0..Len(str) : str[i] \notin Digits}
      d1 == IF stops = {} THEN Len(str)
            ELSE (CHOOSE i \in stops : \A k \in stops : i <= k) - 1
      n == FoldRange(LAMBDA acc, k : 10 * acc + (str[k] - Ch0), 0, d0, d1)
  IN [nan |-> d1 < d0,
      val |-> IF signed /\ str[from] = ChMinus THEN 0 - n ELSE n]

\* a set that is lost
putDropped(map, key, value) == map

put(map, key, value) ==
  [k \in (DOMAIN map) \cup {key} |-> IF k = key THEN value ELSE map[k]]

IsBinary(meta) == Field(meta.obj, KeyEncoding) = [t |-> "str", v |-> StrBinary]

\* a stopListening that leaves the flag up
stopListeningIgnored(rx) == rx

stopListening(rx) == [rx EXCEPT !.isListening = FALSE]

\* reconstructFile; every throw inside is caught by its try and leaves the
\* state as it was (the Blob is built after the last statement that throws)
reconstructFile(rx) ==
  LET meta == rx.fileMetadata
      present == {i \in 0..(rx.expectedChunks - 1) : i \in DOMAIN rx.receivedChunks}
      decoded == [k \in 1..rx.expectedChunks |->
                    IF (k - 1) \in present
                    THEN IF IsBinary(meta)
                         THEN [ok |-> TRUE,
                               val |-> decodeBinaryToData(rx.receivedChunks[k - 1])]
                         ELSE atob(rx.receivedChunks[k - 1])
                    ELSE [ok |-> TRUE, val |-> <<>>]]
      throws == ~meta.present \/ \E k \in 1..rx.expectedChunks : ~decoded[k].ok
      joined == Concat([k \in 1..rx.expectedChunks |-> decoded[k].val])
      bytes == IF Truthy(Field(meta.obj, KeyCompressed))
               THEN decompress(joined) ELSE joined
      receivedChecksum == calculateChecksum(bytes)
      checksum == Field(meta.obj, KeyChecksum)
      mismatch == Truthy(checksum)
                  /\ checksum /= [t |-> "num", v |-> DecStr(receivedChecksum)]
  IN IF throws THEN rx
     ELSE stopListening([rx EXCEPT
            !.receivedData = [present |-> TRUE, bytes |-> bytes],
            !.integrityStatus = IF mismatch THEN "mismatch" ELSE "verified"])

\* a META branch that gives up the metadata it holds when the body does
\* not parse
processMetaForgetful(rx, packet) ==
  LET parsed == parse(SliceFrom(packet, 5))
  IN IF ~parsed.ok
     THEN [rx EXCEPT !.fileMetadata = NoMetadata, !.expectedChunks = 0]
     ELSE [rx EXCEPT !.fileMetadata = [present |-> TRUE, obj |-> parsed.obj],
                     !.expectedChunks = AsCount(Field(parsed.obj, KeyChunks))]

\* the META branch of processPacket
processMeta(rx, packet) ==
  LET parsed == parse(SliceFrom(packet, 5))
  IN IF ~parsed.ok THEN rx
     ELSE [rx EXCEPT !.fileMetadata = [present |-> TRUE, obj |-> parsed.obj],
                     !.expectedChunks = AsCount(Field(parsed.obj, KeyChunks))]

\* the DATA branch without the test receivedChunks.has(chunkIdx)
processDataOverwrite(rx, packet) ==
  LET rest == SliceFrom(packet, 5)
      colon == IndexOf(rest, <<ChColon>>)
      chunkIdx == parseInt(Slice(rest, 0, colon))
      encodedData == SliceFrom(rest, colon + 1)
      stored == [rx EXCEPT
                   !.receivedChunks = put(rx.receivedChunks, chunkIdx.val, encodedData)]
      binary == rx.fileMetadata.present /\ IsBinary(rx.fileMetadata)
      decoded == atob(encodedData)
  IN IF colon = -1 THEN rx
     ELSE IF chunkIdx.nan THEN rx
     ELSE IF binary
          THEN [stored EXCEPT !.totalBytesReceived = @ + Len(encodedData)]
          ELSE IF decoded.ok
               THEN [stored EXCEPT !.totalBytesReceived = @ + 8 * Len(decoded.val)]
               ELSE stored

\* the DATA branch of processPacket
processData(rx, packet) ==
  LET rest == SliceFrom(packet, 5)
      colon == IndexOf(rest, <<ChColon>>)
      chunkIdx == parseInt(Slice(rest, 0, colon))
      encodedData == SliceFrom(rest, colon + 1)
      stored == [rx EXCEPT
                   !.receivedChunks = put(rx.receivedChunks, chunkIdx.val, encodedData)]
      binary == rx.fileMetadata.present /\ IsBinary(rx.fileMetadata)
      decoded == atob(encodedData)
  IN IF colon = -1 THEN rx
     ELSE IF chunkIdx.nan \/ chunkIdx.val \in DOMAIN rx.receivedChunks THEN rx
     ELSE IF binary
          THEN [stored EXCEPT !.totalBytesReceived = @ + Len(encodedData)]
          ELSE IF decoded.ok
               THEN [stored EXCEPT !.totalBytesReceived = @ + 8 * Len(decoded.val)]
               ELSE stored

\* the END branch of processPacket
processEnd(rx) ==
  IF Cardinality(DOMAIN rx.receivedChunks) > 0 THEN reconstructFile(rx) ELSE rx

processPacket(rx, rawPacket) ==
  LET packet == Trim(StripNul(rawPacket))
  IN IF Len(packet) < 5 THEN rx
     ELSE IF StartsWith(packet, StrMETA) THEN processMeta(rx, packet)
     ELSE IF StartsWith(packet, StrDATA) THEN processData(rx, packet)
     ELSE IF StartsWith(packet, StrEND) THEN processEnd(rx)
     ELSE rx

(***************************************************************************)
(* Receiver: demodulator and synchronizer.                                 *)
(***************************************************************************)
ByteMax == 255
OverflowLimit == 5000
HuntLimit == 1000
HuntKeep == 100
DeliverMinLength == 10

\* the magnitude the analyser reports in a bin while the tones play: a tone
\* fills its own bin, every other bin is silent
Amp(tones, bin) == IF \E t \in tones : BinOf(t.freq) = bin THEN ByteMax ELSE 0

\* the decision of demodulateChord for one channel, from the magnitudes of
\* its two bins: 1, 0 or -1 (null)
demodulateChannel(amp0, amp1) ==
  IF amp0 > SIGNAL_THRESHOLD \/ amp1 > SIGNAL_THRESHOLD
  THEN IF amp1 > amp0 THEN 1 ELSE 0
  ELSE -1

\* demodulateChord: per channel 1, 0 or -1 (null); a carrier the list does
\* not hold is undefined, its bins read 0
demodulateChord(tones, profile, frequencies) ==
  LET decide(ch) ==
        LET amp0 == IF ch > Len(frequencies) THEN 0
                    ELSE Amp(tones, BinOf(frequencies[ch] - FSK_DEVIATION))
            amp1 == IF ch > Len(frequencies) THEN 0
                    ELSE Amp(tones, BinOf(frequencies[ch] + FSK_DEVIATION))
        IN demodulateChannel(amp0, amp1)
      demodulated == [ch \in 1..NUM_CHANNELS(profile) |-> decide(ch)]
  IN [signalDetected |-> \E ch \in 1..NUM_CHANNELS(profile) : demodulated[ch] /= -1,
      bits |-> demodulated]

\* the condition under which processReceivedBits hands the buffer over
ShouldDeliver(packetBuffer) ==
  \/ Includes(packetBuffer, <<0>>)
  \/ /\ Len(packetBuffer) > DeliverMinLength
     /\ \/ Includes(packetBuffer, StrMETA)
        \/ Includes(packetBuffer, StrDATA)
        \/ Includes(packetBuffer, StrEND)

\* what processReceivedBits does with a packetBuffer that passes its test:
\* processPacket, then the buffer is emptied and the sync flag lowered
deliver(rx, packetBuffer) ==
  [processPacket(rx, packetBuffer)
     EXCEPT !.demodulationState.packetBuffer = <<>>,
            !.demodulationState.syncDetected = FALSE]

\* the while loop with the overflow test at DeliverMinLength characters
RECURSIVE assembleBytesEarly(_)
assembleBytesEarly(rx) ==
  LET ds == rx.demodulationState
      char == BitsVal(SubSeq(ds.bitStream, 1, 8), 8)
      buffered == Append(ds.packetBuffer, char)
      rest == SliceFrom(ds.bitStream, 8)
      afterDeliver ==
        IF ShouldDeliver(buffered)
        THEN deliver([rx EXCEPT !.delivered = Append(@, buffered),
                                !.demodulationState.bitStream = rest],
                     buffered)
        ELSE [rx EXCEPT !.demodulationState =
                          [ds EXCEPT !.bitStream = rest, !.packetBuffer = buffered]]
      afterOverflow ==
        IF Len(afterDeliver.demodulationState.packetBuffer) > DeliverMinLength
        THEN [afterDeliver EXCEPT !.demodulationState.packetBuffer = <<>>,
                                  !.demodulationState.syncDetected = FALSE]
        ELSE afterDeliver
  IN IF Len(ds.bitStream) < 8 THEN rx ELSE assembleBytesEarly(afterOverflow)

\* the while loop of processReceivedBits
RECURSIVE assembleBytes(_)
assembleBytes(rx) ==
  LET ds == rx.demodulationState
      char == BitsVal(SubSeq(ds.bitStream, 1, 8), 8)
      buffered == Append(ds.packetBuffer, char)
      rest == SliceFrom(ds.bitStream, 8)
      afterDeliver ==
        IF ShouldDeliver(buffered)
        THEN deliver([rx EXCEPT !.delivered = Append(@, buffered),
                                !.demodulationState.bitStream = rest],
                     buffered)
        ELSE [rx EXCEPT !.demodulationState =
                          [ds EXCEPT !.bitStream = rest, !.packetBuffer = buffered]]
      afterOverflow ==
        IF Len(afterDeliver.demodulationState.packetBuffer) > OverflowLimit
        THEN [afterDeliver EXCEPT !.demodulationState.packetBuffer = <<>>,
                                  !.demodulationState.syncDetected = FALSE]
        ELSE afterDeliver
  IN IF Len(ds.bitStream) < 8 THEN rx ELSE assembleBytes(afterOverflow)

processReceivedBits(rx, bits) ==
  LET ds == rx.demodulationState
      bitStream == ds.bitStream \o SelectSeq(bits, LAMBDA b : b /= -1)
      idx == IndexOf(bitStream, SyncPattern)
  IN IF ~ds.syncDetected
     THEN IF idx /= -1
          THEN [rx EXCEPT !.demodulationState.syncDetected = TRUE,
                          !.demodulationState.bitStream =
                             SliceFrom(bitStream, idx + Len(SyncPattern))]
          ELSE IF Len(bitStream) > HuntLimit
               THEN [rx EXCEPT !.demodulationState.bitStream =
                                  SliceFrom(bitStream, Len(bitStream) - HuntKeep)]
               ELSE [rx EXCEPT !.demodulationState.bitStream = bitStream]
     ELSE assembleBytes([rx EXCEPT !.demodulationState.bitStream = bitStream])

(***************************************************************************)
(* Sender: what startSending and transmitFileWithAck compute.              *)
(***************************************************************************)
\* the files a user may select: empty, one byte, one chunk exactly, one
\* byte more than a chunk, and two files just above the compression
\* threshold, one repetitive and one without repetition
Repetitive(len) == [i \in 1..len |-> 65 + (i % 40)]
Mixed(len) == [i \in 1..len |-> (i * i * 7 + (i \div 3)) % 251]
FileName == <<97, 46, 98>>
SelectableFiles ==
  { <<>>, <<65>>, Repetitive(CHUNK_SIZE), Mixed(CHUNK_SIZE + 1),
    Repetitive(COMPRESSION_MIN_SIZE + 1), Mixed(COMPRESSION_MIN_SIZE + 1) }
NoFile == [present |-> FALSE, name |-> <<>>, bytes |-> <<>>]

\* Date.now() as JSON.stringify writes it
Timestamp == <<49, 55, 48, 48, 48, 48, 48, 48, 48, 48, 48, 48, 48>>

\* reader.onload keeping the compressed form whatever its length
PreparedKeepCompressed(file) ==
  LET compressedData == compress(file.bytes)
      useCompressed == USE_COMPRESSION /\ Len(file.bytes) > COMPRESSION_MIN_SIZE
  IN [fileData |-> IF useCompressed THEN compressedData ELSE file.bytes,
      compressed |-> useCompressed]

\* the compression decision of reader.onload
Prepared(file) ==
  LET compressedData == compress(file.bytes)
      useCompressed == /\ USE_COMPRESSION
                       /\ Len(file.bytes) > COMPRESSION_MIN_SIZE
                       /\ Len(compressedData) < Len(file.bytes)
  IN [fileData |-> IF useCompressed THEN compressedData ELSE file.bytes,
      compressed |-> useCompressed]

\* the metadata object of reader.onload
Metadata(file, fileData, compressed, profile) ==
  [filename |-> file.name,
   size |-> Len(fileData),
   originalSize |-> Len(file.bytes),
   compressed |-> compressed,
   checksum |-> calculateChecksum(fileData),
   crc |-> crc16(fileData),
   chunks |-> CeilDiv(Len(fileData), CHUNK_SIZE),
   timestamp |-> Timestamp,
   useAck |-> TRUE,
   encoding |-> IF USE_BASE64(profile) THEN StrBase64 ELSE StrBinary]

\* totalChunks rounded down and one added
TotalChunksFloor(fileData) == (Len(fileData) \div CHUNK_SIZE) + 1

\* totalChunks of transmitFileWithAck
TotalChunks(fileData) == CeilDiv(Len(fileData), CHUNK_SIZE)

\* fileData.slice(start, end) of chunk i
Chunk(fileData, i) ==
  SubSeq(fileData, i * CHUNK_SIZE + 1, Min(i * CHUNK_SIZE + CHUNK_SIZE, Len(fileData)))

EncodeChunk(chunk, profile) ==
  IF USE_BASE64(profile) THEN btoa(chunk) ELSE encodeDataToBinary(chunk)

MetaPacket(metadata) == StrMETA \o stringify(metadata)
DataPacket(i, encodedData) == StrDATA \o DecStr(i) \o <<ChColon>> \o encodedData

(***************************************************************************)
(* State.                                                                  *)
(***************************************************************************)
VARIABLES
  currentProfile,      \* the profile both devices are set to
  ambient,             \* the ambient noise both devices calibrate in
  selectedFile,        \* sender: the selected file
  optimalFrequencies,  \* sender: the carriers of its calibration
  isCalibrated,        \* sender
  isSending,           \* sender
  chunkRetryMap,       \* sender: chunks recorded as failed
  txRetry,             \* sender: attempts made for the chunk of the loop
  txResent,            \* sender: entries of chunkRetryMap sent by the retry pass
  txPc,                \* sender: position in startSending / transmitFileWithAck
  txData,              \* sender: fileData
  txMeta,              \* sender: metadata
  txChunk,             \* sender: the loop variable i
  txCount,             \* sender: preamble chords played
  txStreams,           \* sender: symbol streams of the frame being played
  txSlot,              \* sender: symbolIdx
  onAir,               \* history: what the sender has put on the air
  air,                 \* the tones of the chord in the air
  airSeen,             \* whether a receiver tick has sampled that chord
  rxFrequencies,       \* receiver: optimalFrequencies of its own calibration
  isListening,         \* receiver
  receivedChunks,      \* receiver
  expectedChunks,      \* receiver
  fileMetadata,        \* receiver
  totalBytesReceived,  \* receiver, in eighths of a byte
  receivedData,        \* receiver: the delivered artifact
  integrityStatus,     \* receiver: the status shown with the artifact
  demodulationState,   \* receiver: bitStream, packetBuffer, syncDetected
  delivered,           \* history: the buffers handed to processPacket
  offered,             \* packet level: the packet bodies that may arrive
  lastPacket,          \* packet level: the body processed last
  rxFirst,             \* history: per index, the payload of the first
                       \* DATA packet of the session that carried it
  rxCount,             \* packet level: packets processed so far
  lz,                  \* compressor bench: pc, input, data
  disabled,            \* controls: the disabled property of the buttons
  loops,               \* controls: one entry per call of startListening
  sessions,            \* controls: one entry per call of startSending
  quick,               \* controls: where a running quickSend stands
  currentPower,        \* powerController.currentPower, in millionths
  currentSNR,          \* the SNR the signal monitor measured last
  modem,               \* modulator bench: pc, profile, bits, streams, symbols, out
  digest,              \* integrity bench: pc, input, checksum, crc
  heard,               \* what demodulateChord returned, tick by tick, with
                       \* <<>> where the reception loop was stopped
  clock,               \* reception loop timing: now, lastCheckTime (ms),
                       \* frames run, sampled (the slot each tick sampled)
  acks,                \* what the calls of sendPacketWithAck returned: idx,
                       \* sent, retry (made by the retry pass)
  probe                \* framing and threshold bench: pc, message, frame,
                       \* amp0, amp1, bit

vars == << currentProfile, ambient, selectedFile, optimalFrequencies,
           isCalibrated, isSending, chunkRetryMap, txRetry, txResent, txPc, txData, txMeta,
           txChunk, txCount, txStreams, txSlot, onAir, air, airSeen,
           rxFrequencies, isListening, receivedChunks, expectedChunks,
           fileMetadata, totalBytesReceived, receivedData, integrityStatus,
           demodulationState, delivered, offered, lastPacket, rxFirst,
           rxCount, lz, disabled, loops, sessions, quick, currentPower, currentSNR,
           modem, digest, heard, clock, acks, probe >>

benchVars == << lz, disabled, loops, sessions, quick, currentPower, currentSNR, modem,
               digest, heard, clock, acks, probe >>

packetVars == << offered, lastPacket, rxFirst, rxCount >>

senderVars == << selectedFile, optimalFrequencies, isCalibrated, isSending,
                 chunkRetryMap, txRetry, txResent,
                 txPc, txData, txMeta, txChunk, txCount,
                 txStreams, txSlot, onAir >>

receiverVars == << rxFrequencies, isListening, receivedChunks, expectedChunks,
                   fileMetadata, totalBytesReceived, receivedData,
                   integrityStatus, demodulationState, delivered >>

\* the receiver's globals as the record the receiver operators work on
Rx == [isListening |-> isListening, receivedChunks |-> receivedChunks,
       expectedChunks |-> expectedChunks, fileMetadata |-> fileMetadata,
       totalBytesReceived |-> totalBytesReceived, receivedData |-> receivedData,
       integrityStatus |-> integrityStatus,
       demodulationState |-> demodulationState, delivered |-> delivered]

SetRx(rx) ==
  /\ isListening' = rx.isListening
  /\ receivedChunks' = rx.receivedChunks
  /\ expectedChunks' = rx.expectedChunks
  /\ fileMetadata' = rx.fileMetadata
  /\ totalBytesReceived' = rx.totalBytesReceived
  /\ receivedData' = rx.receivedData
  /\ integrityStatus' = rx.integrityStatus
  /\ demodulationState' = rx.demodulationState
  /\ delivered' = rx.delivered

NoPacket == [kind |-> "none", sent |-> FALSE, idx |-> -1, payload |-> <<>>,
             text |-> <<>>]

NoMeta == [filename |-> <<>>, size |-> 0, originalSize |-> 0,
           compressed |-> FALSE, checksum |-> 0, crc |-> 0, chunks |-> 0,
           timestamp |-> <<>>, useAck |-> TRUE, encoding |-> <<>>]

InitDevices ==
  /\ currentProfile = "FAST"
  /\ ambient = "quiet"
  /\ selectedFile = NoFile
  /\ optimalFrequencies = <<>>
  /\ isCalibrated = FALSE
  /\ isSending = FALSE
  /\ chunkRetryMap = EmptyMap
  /\ txRetry = 0
  /\ txResent = 0
  /\ txPc = "idle"
  /\ txData = <<>>
  /\ txMeta = NoMeta
  /\ txChunk = 0
  /\ txCount = 0
  /\ txStreams = <<>>
  /\ txSlot = 0
  /\ onAir = <<>>
  /\ air = {}
  /\ airSeen = TRUE
  /\ rxFrequencies = <<>>
  /\ isListening = FALSE
  /\ receivedChunks = EmptyMap
  /\ expectedChunks = 0
  /\ fileMetadata = NoMetadata
  /\ totalBytesReceived = 0
  /\ receivedData = NoData
  /\ integrityStatus = "none"
  /\ demodulationState = [bitStream |-> <<>>, packetBuffer |-> <<>>,
                          syncDetected |-> FALSE]
  /\ delivered = <<>>
  /\ lastPacket = NoPacket
  /\ rxFirst = EmptyMap
  /\ rxCount = 0

NothingOffered == [file |-> <<>>, meta |-> NoMeta, packets |-> <<>>]

NoLz == [pc |-> "idle", input |-> <<>>, data |-> <<>>]

LzIdle == lz = NoLz

\* the buttons as the handlers leave them when nothing runs and no file is
\* selected; no call of startListening, startSending or quickSend so far
ControlsIdle ==
  /\ disabled = [listenBtn |-> FALSE, stopListenBtn |-> TRUE,
                 sendBtn |-> TRUE, quickSendBtn |-> TRUE]
  /\ loops = <<>>
  /\ sessions = <<>>
  /\ quick = "idle"

(***************************************************************************)
(* PowerController.  The power is counted in millionths of full scale, so  *)
(* 0.1 is 100000; a product that is not a whole number of millionths is    *)
(* cut to one.  An SNR is [nan |-> whether it is NaN, db |-> its value].   *)
(***************************************************************************)
ENABLE_ADAPTIVE_POWER == TRUE
MIN_POWER == 30000
MAX_POWER == 150000
TARGET_SNR == 15
InitialPower == 100000

\* adjustPower without the Math.min of its raising branch
adjustPowerUncapped(power, snr) ==
  LET snrDiff == TARGET_SNR - snr.db
      close == ~snr.nan /\ snrDiff > -2 /\ snrDiff < 2
  IN IF ~ENABLE_ADAPTIVE_POWER THEN power
     ELSE IF close THEN power
     ELSE IF ~snr.nan /\ snrDiff > 0
          THEN (power * 11) \div 10
          ELSE Max(MIN_POWER, (power * 9) \div 10)

\* adjustPower without its test Math.abs(snrDiff) < 2
adjustPowerEager(power, snr) ==
  LET snrDiff == TARGET_SNR - snr.db
  IN IF ~ENABLE_ADAPTIVE_POWER THEN power
     ELSE IF ~snr.nan /\ snrDiff > 0
          THEN Min(MAX_POWER, (power * 11) \div 10)
          ELSE Max(MIN_POWER, (power * 9) \div 10)

\* adjustPower(currentSNR), the argument written snr: the power it leaves;
\* every comparison with a NaN difference is false, which leads to the
\* lowering branch
adjustPower(power, snr) ==
  LET snrDiff == TARGET_SNR - snr.db
      close == ~snr.nan /\ snrDiff > -2 /\ snrDiff < 2
  IN IF ~ENABLE_ADAPTIVE_POWER THEN power
     ELSE IF close THEN power
     ELSE IF ~snr.nan /\ snrDiff > 0
          THEN Min(MAX_POWER, (power * 11) \div 10)
          ELSE Max(MIN_POWER, (power * 9) \div 10)

\* let currentSNR = 0
InitialSNR == [nan |-> FALSE, db |-> 0]

PowerIdle == currentPower = InitialPower /\ currentSNR = InitialSNR

NoModem == [pc |-> "idle", profile |-> "FAST", bits |-> <<>>, streams |-> <<>>,
            symbols |-> <<>>, out |-> <<>>]

ModemIdle == modem = NoModem

NoDigest == [pc |-> "idle", input |-> <<>>, checksum |-> 0, crc |-> 0]

DigestIdle == digest = NoDigest

HeardNothing == heard = <<>>

\* Date.now() when the reception loop starts, in ms
Epoch == 1000

NoClock == [now |-> Epoch, lastCheckTime |-> 0, frames |-> 0, sampled |-> <<>>]

ClockIdle == clock = NoClock

NoProbe == [pc |-> "idle", message |-> <<>>, frame |-> <<>>,
            amp0 |-> 0, amp1 |-> 0, bit |-> -1]

ProbeIdle == probe = NoProbe

NoAcks == acks = <<>>

BenchIdle ==
  LzIdle /\ ControlsIdle /\ PowerIdle /\ ModemIdle /\ DigestIdle /\ HeardNothing /\ ClockIdle
  /\ NoAcks /\ ProbeIdle

Init == InitDevices /\ offered = NothingOffered /\ BenchIdle

(***************************************************************************)
(* The users' operations.  The environment of this specification: the two  *)
(* users agree on the profile before either device calibrates, they touch  *)
(* the controls only while no transfer is running, and there is one        *)
(* transfer.                                                               *)
(***************************************************************************)
SenderIdle == txPc = "idle"
AirFree == ~isListening \/ airSeen
FramePlayed == txSlot >= MaxLen(txStreams)

\* setSpeedProfile(profileName)
setSpeedProfile(profileName) ==
  /\ currentProfile' = profileName
  /\ isCalibrated' = FALSE
  /\ UNCHANGED << ambient, selectedFile, optimalFrequencies, isSending,
                  chunkRetryMap, txRetry, txResent,
                  txPc, txData, txMeta, txChunk, txCount,
                  txStreams, txSlot, onAir, air, airSeen >>
  /\ UNCHANGED receiverVars
  /\ UNCHANGED packetVars
  /\ UNCHANGED benchVars

\* setSpeedProfile(profileName) on both devices, before either calibrates
SetSpeedProfile(profileName) ==
  /\ SenderIdle /\ ~isListening /\ optimalFrequencies = <<>>
  /\ setSpeedProfile(profileName)

\* handleFileSelect
HandleFileSelect(bytes) ==
  /\ SenderIdle
  /\ selectedFile' = [present |-> TRUE, name |-> FileName, bytes |-> bytes]
  /\ UNCHANGED << currentProfile, ambient, optimalFrequencies, isCalibrated,
                  isSending, chunkRetryMap, txRetry, txResent, txPc, txData, txMeta, txChunk,
                  txCount, txStreams, txSlot, onAir, air, airSeen >>
  /\ UNCHANGED receiverVars
  /\ UNCHANGED packetVars
  /\ UNCHANGED benchVars

\* performCalibration on the sender (manualCalibrate, quickSend)
Calibrate ==
  /\ SenderIdle
  /\ optimalFrequencies' = analyzeCalibrationData(ambient, currentProfile)
  /\ isCalibrated' = TRUE
  /\ UNCHANGED << currentProfile, ambient, selectedFile, isSending,
                  chunkRetryMap, txRetry, txResent,
                  txPc, txData, txMeta, txChunk, txCount,
                  txStreams, txSlot, onAir, air, airSeen >>
  /\ UNCHANGED receiverVars
  /\ UNCHANGED packetVars
  /\ UNCHANGED benchVars

\* startListening: reset of the session's globals, quick calibration, start
\* of the reception loop
StartListening ==
  /\ SenderIdle /\ ~isListening
  /\ isListening' = TRUE
  /\ receivedChunks' = EmptyMap
  /\ receivedData' = NoData
  /\ fileMetadata' = NoMetadata
  /\ expectedChunks' = 0
  /\ totalBytesReceived' = 0
  /\ rxFrequencies' = analyzeCalibrationData(ambient, currentProfile)
  /\ UNCHANGED << integrityStatus, demodulationState, delivered >>
  /\ rxFirst' = EmptyMap
  /\ UNCHANGED << currentProfile, ambient, air, airSeen, offered, lastPacket,
                  rxCount >>
  /\ UNCHANGED senderVars
  /\ UNCHANGED benchVars

(***************************************************************************)
(* The sender session.                                                     *)
(***************************************************************************)
\* startSending with reader.onload
StartSending ==
  /\ SenderIdle
  /\ selectedFile.present /\ optimalFrequencies /= <<>>
  /\ isSending' = TRUE
  /\ chunkRetryMap' = EmptyMap
  /\ txRetry' = 0
  /\ txResent' = 0
  /\ LET p == Prepared(selectedFile)
     IN /\ txData' = p.fileData
        /\ txMeta' = Metadata(selectedFile, p.fileData, p.compressed, currentProfile)
  /\ txPc' = "preamble"
  /\ txCount' = 0
  /\ onAir' = <<>>
  /\ UNCHANGED << currentProfile, ambient, selectedFile, optimalFrequencies,
                  isCalibrated, txChunk, txStreams, txSlot, air, airSeen >>
  /\ UNCHANGED receiverVars
  /\ UNCHANGED packetVars
  /\ UNCHANGED benchVars

Entry(type, idx, len) == [type |-> type, idx |-> idx, len |-> len]

\* sendPreamble: one playChord(optimalFrequencies, 150) of the three
SendPreamble ==
  /\ txPc = "preamble" /\ AirFree
  /\ air' = PreambleChord(optimalFrequencies)
  /\ airSeen' = FALSE
  /\ onAir' = Append(onAir, Entry("PRE", -1, 0))
  /\ txCount' = txCount + 1
  /\ txPc' = IF txCount + 1 = 3 THEN "meta" ELSE "preamble"
  /\ UNCHANGED << currentProfile, ambient, selectedFile, optimalFrequencies,
                  isCalibrated, isSending, chunkRetryMap, txRetry, txResent, txData, txMeta,
                  txChunk, txStreams, txSlot >>
  /\ UNCHANGED receiverVars
  /\ UNCHANGED packetVars
  /\ UNCHANGED benchVars

\* sendPacket: the frame of the message, split into symbol streams
LoadFrame(message) ==
  /\ txStreams' = transmitBinaryChord(Frame(message), currentProfile)
  /\ txSlot' = 0

\* sendPacketWithAck('META:' + metadataStr)
SendMeta ==
  /\ txPc = "meta"
  /\ LoadFrame(MetaPacket(txMeta))
  /\ onAir' = Append(onAir, Entry("META", -1, 0))
  /\ txPc' = "data"
  /\ txChunk' = 0
  /\ UNCHANGED << currentProfile, ambient, selectedFile, optimalFrequencies,
                  isCalibrated, isSending, chunkRetryMap, txRetry, txResent, txData, txMeta,
                  txCount, air, airSeen >>
  /\ UNCHANGED receiverVars
  /\ UNCHANGED packetVars
  /\ UNCHANGED benchVars

\* a sendPacketWithAck whose acknowledgement never arrives
sendPacketWithAckLost(message) == FALSE

\* sendPacketWithAck(message): what it returns; the sendPacket(message) it
\* awaits first is LoadFrame
sendPacketWithAck(message) == TRUE

\* one call of sendPacketWithAck for a DATA packet.  In the chunk loop: the
\* attempt txRetry of chunk txChunk; the retry loop ends when the packet
\* counts as sent or after MAX_RETRIES attempts, and then the chunk enters
\* chunkRetryMap.  After the chunk loop: the retry pass over the entries of
\* chunkRetryMap, in the order they were set.
SendDataGiven(sent) ==
  /\ txPc = "data" /\ FramePlayed
  /\ IF txChunk < TotalChunks(txData) THEN TRUE
     ELSE txResent < Cardinality(DOMAIN chunkRetryMap)
  /\ IF txChunk < TotalChunks(txData)
     THEN LET chunk == Chunk(txData, txChunk)
              encodedData == EncodeChunk(chunk, currentProfile)
              message == DataPacket(txChunk, encodedData)
              last == txRetry + 1 >= MAX_RETRIES
          IN /\ LoadFrame(message)
             /\ onAir' = Append(onAir, Entry("DATA", txChunk, Len(chunk)))
             /\ txRetry' = IF sent \/ last THEN 0 ELSE txRetry + 1
             /\ txChunk' = IF sent \/ last THEN txChunk + 1 ELSE txChunk
             /\ chunkRetryMap' = IF ~sent /\ last
                                 THEN put(chunkRetryMap, txChunk, encodedData)
                                 ELSE chunkRetryMap
             /\ UNCHANGED txResent
     ELSE LET idx == CHOOSE i \in DOMAIN chunkRetryMap :
                       Cardinality({j \in DOMAIN chunkRetryMap : j < i}) = txResent
          IN /\ LoadFrame(DataPacket(idx, chunkRetryMap[idx]))
             /\ onAir' = Append(onAir, Entry("DATA", idx, Len(Chunk(txData, idx))))
             /\ txResent' = txResent + 1
             /\ UNCHANGED << txChunk, txRetry, chunkRetryMap >>
  /\ UNCHANGED << currentProfile, ambient, selectedFile, optimalFrequencies,
                  isCalibrated, isSending, txPc, txData, txMeta,
                  txCount, air, airSeen >>
  /\ UNCHANGED receiverVars
  /\ UNCHANGED packetVars

\* the message of the next call of sendPacketWithAck
AttemptMessage ==
  IF txChunk < TotalChunks(txData)
  THEN DataPacket(txChunk, EncodeChunk(Chunk(txData, txChunk), currentProfile))
  ELSE IF txResent < Cardinality(DOMAIN chunkRetryMap)
       THEN LET idx == CHOOSE i \in DOMAIN chunkRetryMap :
                         Cardinality({j \in DOMAIN chunkRetryMap : j < i}) = txResent
            IN DataPacket(idx, chunkRetryMap[idx])
       ELSE <<>>

SendData ==
  /\ SendDataGiven(sendPacketWithAck(AttemptMessage))
  /\ UNCHANGED benchVars

\* the completion signal sent once only
SendEndOnce ==
  /\ txPc = "data" /\ txChunk >= TotalChunks(txData)
  /\ txResent >= Cardinality(DOMAIN chunkRetryMap)
  /\ FramePlayed
  /\ LoadFrame(StrENDCOMPLETE)
  /\ onAir' = Append(onAir, Entry("END", -1, 0))
  /\ txPc' = "finish"
  /\ UNCHANGED << currentProfile, ambient, selectedFile, optimalFrequencies,
                  isCalibrated, isSending, chunkRetryMap, txRetry, txResent, txData, txMeta,
                  txChunk, txCount, air, airSeen >>
  /\ UNCHANGED receiverVars
  /\ UNCHANGED packetVars
  /\ UNCHANGED benchVars

\* after the chunk loop and the retry pass: the first and then the second
\* sendPacket('END:COMPLETE')
SendEnd ==
  /\ \/ /\ txPc = "data" /\ txChunk >= TotalChunks(txData)
        /\ txResent >= Cardinality(DOMAIN chunkRetryMap)
     \/ txPc = "end2"
  /\ FramePlayed
  /\ LoadFrame(StrENDCOMPLETE)
  /\ onAir' = Append(onAir, Entry("END", -1, 0))
  /\ txPc' = IF txPc = "data" THEN "end2" ELSE "finish"
  /\ UNCHANGED << currentProfile, ambient, selectedFile, optimalFrequencies,
                  isCalibrated, isSending, chunkRetryMap, txRetry, txResent, txData, txMeta,
                  txChunk, txCount, air, airSeen >>
  /\ UNCHANGED receiverVars
  /\ UNCHANGED packetVars
  /\ UNCHANGED benchVars

\* the end of transmitFileWithAck
Finish ==
  /\ txPc = "finish" /\ FramePlayed
  /\ isSending' = FALSE
  /\ txPc' = "done"
  /\ UNCHANGED << currentProfile, ambient, selectedFile, optimalFrequencies,
                  isCalibrated, chunkRetryMap, txRetry, txResent, txData, txMeta, txChunk, txCount,
                  txStreams, txSlot, onAir, air, airSeen >>
  /\ UNCHANGED receiverVars
  /\ UNCHANGED packetVars
  /\ UNCHANGED benchVars

\* one slot of transmitBinaryFSK / QPSK / 8PSK: the chord of symbolIdx
PlayChord ==
  /\ txPc \in {"data", "end2", "finish"}
  /\ ~FramePlayed /\ AirFree
  /\ air' = ChordOf(txStreams, txSlot, currentProfile, optimalFrequencies)
  /\ airSeen' = FALSE
  /\ txSlot' = txSlot + 1
  /\ UNCHANGED << currentProfile, ambient, selectedFile, optimalFrequencies,
                  isCalibrated, isSending, chunkRetryMap, txRetry, txResent, txPc, txData, txMeta,
                  txChunk, txCount, txStreams, onAir >>
  /\ UNCHANGED receiverVars
  /\ UNCHANGED packetVars
  /\ UNCHANGED benchVars

(***************************************************************************)
(* The receiver session.                                                   *)
(***************************************************************************)
\* checkForSignal: one tick of the reception loop on the chord in the air
Tick ==
  /\ isListening /\ ~airSeen
  /\ airSeen' = TRUE
  /\ LET d == demodulateChord(air, currentProfile, rxFrequencies)
     IN IF d.signalDetected
        THEN SetRx(processReceivedBits(Rx, d.bits))
        ELSE UNCHANGED << isListening, receivedChunks, expectedChunks,
                          fileMetadata, totalBytesReceived, receivedData,
                          integrityStatus, demodulationState, delivered >>
  /\ UNCHANGED << currentProfile, ambient, air, rxFrequencies >>
  /\ UNCHANGED senderVars
  /\ UNCHANGED packetVars
  /\ UNCHANGED benchVars

Next ==
  \/ \E profileName \in ProfileNames : SetSpeedProfile(profileName)
  \/ \E bytes \in SelectableFiles : HandleFileSelect(bytes)
  \/ Calibrate
  \/ StartListening
  \/ StartSending
  \/ SendPreamble
  \/ SendMeta
  \/ SendData
  \/ SendEnd
  \/ Finish
  \/ PlayChord
  \/ Tick

Spec == Init /\ [][Next]_vars

(***************************************************************************)
(* The chunk loop and the retry pass of transmitFileWithAck with the       *)
(* result of sendPacketWithAck as an input: sent is what the call returns, *)
(* true or false.  The sender alone, under the profile it starts with, on  *)
(* a file of one chunk and a file of two.                                  *)
(***************************************************************************)
RetryFiles == {<<65>>, Mixed(CHUNK_SIZE + 1)}

SendAttempt(sent) ==
  /\ SendDataGiven(sent)
  /\ acks' = Append(acks, IF txChunk < TotalChunks(txData)
                          THEN [idx |-> txChunk, sent |-> sent, retry |-> FALSE]
                          ELSE [idx |-> CHOOSE i \in DOMAIN chunkRetryMap :
                                          Cardinality({j \in DOMAIN chunkRetryMap : j < i})
                                            = txResent,
                                sent |-> sent, retry |-> TRUE])
  /\ UNCHANGED << lz, disabled, loops, sessions, quick, currentPower, currentSNR, modem,
                  digest, heard, clock, probe >>

NextRetry ==
  \/ \E bytes \in RetryFiles : HandleFileSelect(bytes)
  \/ Calibrate
  \/ StartSending
  \/ SendPreamble
  \/ SendMeta
  \/ \E sent \in BOOLEAN : SendAttempt(sent)
  \/ SendEnd
  \/ Finish
  \/ PlayChord

SpecRetry == Init /\ [][NextRetry]_vars

(***************************************************************************)
(* The receiver session at packet level: processPacket applied to packet   *)
(* bodies.  The bodies that may arrive are those of one sender session     *)
(* (its META, its DATA packets, END:COMPLETE; sent is TRUE for them) and   *)
(* damaged or foreign ones: the META with another checksum, a DATA packet  *)
(* that reuses index 0 with another payload, and four bodies processPacket *)
(* cannot parse (kind "BAD"): the META cut after 11 characters, a DATA     *)
(* packet with the index x, a body with the tag PING: and the 3 characters *)
(* END.  They arrive in any order, any number of times, each after the     *)
(* synchronizer has found the sync pattern.                                *)
(***************************************************************************)
ZeroTail == [i \in 1..(CHUNK_SIZE + 1) |-> IF i <= CHUNK_SIZE THEN 65 ELSE 0]

RxSources ==
  { [bytes |-> Mixed(CHUNK_SIZE + 1), profile |-> "STANDARD"],
    [bytes |-> Mixed(CHUNK_SIZE + 1), profile |-> "FAST"],
    [bytes |-> Repetitive(COMPRESSION_MIN_SIZE + 1), profile |-> "FAST"],
    [bytes |-> Repetitive(COMPRESSION_MIN_SIZE + 1), profile |-> "STANDARD"],
    [bytes |-> ZeroTail, profile |-> "STANDARD"],
    [bytes |-> <<>>, profile |-> "STANDARD"] }

Packet(kind, sent, idx, payload, text) ==
  [kind |-> kind, sent |-> sent, idx |-> idx, payload |-> payload, text |-> text]

Offered(src) ==
  LET file == [present |-> TRUE, name |-> FileName, bytes |-> src.bytes]
      p == Prepared(file)
      m == Metadata(file, p.fileData, p.compressed, src.profile)
      n == TotalChunks(p.fileData)
      payload(i) == EncodeChunk(Chunk(p.fileData, i), src.profile)
      foreign == IF n >= 2 THEN payload(n - 1) ELSE EncodeChunk(<<66>>, src.profile)
      meta(sent, checksum) ==
        Packet("META", sent, -1, <<>>, MetaPacket([m EXCEPT !.checksum = checksum]))
      bad(text) == Packet("BAD", FALSE, -1, <<>>, text)
  IN [file |-> src.bytes,
      meta |-> m,
      packets |->
        << meta(TRUE, m.checksum) >>
        \o (IF m.checksum = 0 THEN <<>> ELSE << meta(FALSE, 0) >>)
        \o << meta(FALSE, (m.checksum + 1) % 65536) >>
        \o [i \in 1..n |-> Packet("DATA", TRUE, i - 1, payload(i - 1),
                                  DataPacket(i - 1, payload(i - 1)))]
        \o << Packet("DATA", FALSE, 0, foreign, DataPacket(0, foreign)),
              Packet("END", TRUE, -1, <<>>, StrENDCOMPLETE) >>
        \o << bad(SubSeq(MetaPacket(m), 1, DeliverMinLength + 1)),
              bad(StrDATA \o <<120, ChColon>> \o foreign),
              bad(<<80, 73, 78, 71, ChColon>> \o DecStr(m.checksum)),
              bad(SubSeq(StrEND, 1, 3)) >>]

InitRx ==
  /\ InitDevices /\ BenchIdle
  /\ offered \in {Offered(src) : src \in RxSources}

\* processReceivedBits while hunting, the sync pattern is in the bit stream
DetectSync ==
  /\ isListening /\ ~demodulationState.syncDetected
  /\ demodulationState' = [demodulationState EXCEPT !.syncDetected = TRUE]
  /\ UNCHANGED << currentProfile, ambient, air, airSeen, rxFrequencies,
                  isListening, receivedChunks, expectedChunks, fileMetadata,
                  totalBytesReceived, receivedData, integrityStatus, delivered >>
  /\ UNCHANGED senderVars
  /\ UNCHANGED packetVars
  /\ UNCHANGED benchVars

\* processReceivedBits past the sync pattern: packetBuffer has become the
\* k-th of the bodies that may arrive
DeliverPacket(k) ==
  /\ isListening /\ rxCount < MaxDeliveries
  /\ demodulationState.syncDetected
  /\ SetRx(deliver(Rx, offered.packets[k].text))
  /\ lastPacket' = offered.packets[k]
  /\ rxFirst' = IF offered.packets[k].kind = "DATA"
                   /\ offered.packets[k].idx \notin DOMAIN rxFirst
                THEN put(rxFirst, offered.packets[k].idx, offered.packets[k].payload)
                ELSE rxFirst
  /\ rxCount' = rxCount + 1
  /\ UNCHANGED << currentProfile, ambient, air, airSeen, rxFrequencies, offered >>
  /\ UNCHANGED senderVars
  /\ UNCHANGED benchVars

NextRx ==
  \/ StartListening
  \/ DetectSync
  \/ \E k \in 1..Len(offered.packets) : DeliverPacket(k)

SpecRx == InitRx /\ [][NextRx]_vars

(***************************************************************************)
(* LZCompressor on its own: compress applied to a byte sequence, then      *)
(* decompress applied to what compress returned, as startSending and       *)
(* reconstructFile do.  The inputs are the byte sequences of up to         *)
(* MaxLzLen bytes over a byte below 0xFF, the byte 0 and the byte 0xFF.    *)
(***************************************************************************)
LzBytes == {0, 65, ByteMax}

\* a run of one byte, and the bytes 0..127 over and over: the second is
\* longer than the window, so that the farthest candidate of a cursor near
\* its end lies windowSize bytes back
Run(len) == [i \in 1..len |-> 65]
Cyclic(len) == [i \in 1..len |-> (i - 1) % 128]

LzInputs ==
  UNION {[1..n -> LzBytes] : n \in 0..MaxLzLen}
    \cup {Run(MaxRun), Cyclic(windowSize + MaxRun)}

\* compressed streams as a receiver may hold them: the stream of a run cut
\* short after any of its bytes, and a stream whose first item is a match
LzStreams ==
  {SubSeq(compress(Run(MaxRun)), 1, k) : k \in 4..(Len(compress(Run(MaxRun))) - 1)}
    \cup {<<0, 0, 0, 3, ByteMax, 0, 1, 3>>}

InitLZ ==
  /\ InitDevices /\ offered = NothingOffered
  /\ ControlsIdle /\ PowerIdle /\ ModemIdle /\ DigestIdle /\ HeardNothing /\ ClockIdle
  /\ NoAcks /\ ProbeIdle
  /\ \/ \E b \in LzInputs : lz = [pc |-> "input", input |-> b, data |-> b]
     \/ \E b \in LzStreams : lz = [pc |-> "stream", input |-> b, data |-> b]

UnchangedDevices ==
  /\ UNCHANGED << currentProfile, ambient, air, airSeen >>
  /\ UNCHANGED senderVars
  /\ UNCHANGED receiverVars
  /\ UNCHANGED packetVars

\* LZCompressor.compress(data)
Compress ==
  /\ lz.pc = "input"
  /\ lz' = [lz EXCEPT !.pc = "compressed", !.data = compress(lz.input)]
  /\ UnchangedDevices
  /\ UNCHANGED << disabled, loops, sessions, quick, currentPower, currentSNR, modem, digest, heard, clock, acks, probe >>

\* LZCompressor.decompress(data)
Decompress ==
  /\ lz.pc = "compressed"
  /\ lz' = [lz EXCEPT !.pc = "decompressed", !.data = decompress(lz.data)]
  /\ UnchangedDevices
  /\ UNCHANGED << disabled, loops, sessions, quick, currentPower, currentSNR, modem, digest, heard, clock, acks, probe >>

\* compressor.decompress(bytes) in reconstructFile, on a stream as received
Unpack ==
  /\ lz.pc = "stream"
  /\ lz' = [lz EXCEPT !.pc = "unpacked", !.data = decompress(lz.input)]
  /\ UnchangedDevices
  /\ UNCHANGED << disabled, loops, sessions, quick, currentPower, currentSNR, modem, digest, heard, clock, acks, probe >>

NextLZ == Compress \/ Decompress \/ Unpack

SpecLZ == InitLZ /\ [][NextLZ]_vars

(***************************************************************************)
(* Calibration on its own: the profile is changed and the device is        *)
(* calibrated in any order, any number of times, while the noise floor of  *)
(* the room changes.                                                       *)
(***************************************************************************)
\* the room: the spectrum the next calibration will average
NoiseChanges(a) ==
  /\ ambient /= a
  /\ ambient' = a
  /\ UNCHANGED << currentProfile, air, airSeen >>
  /\ UNCHANGED << senderVars, receiverVars, packetVars, benchVars >>

NextCalibration ==
  \/ \E profileName \in ProfileNames : setSpeedProfile(profileName)
  \/ \E a \in Ambients : NoiseChanges(a)
  \/ Calibrate

SpecCalibration == Init /\ [][NextCalibration]_vars

(***************************************************************************)
(* Two devices under one profile, each calibrating against the noise it    *)
(* hears when it does so: the sender by manualCalibrate or quickSend, the  *)
(* receiver by the quick calibration of startListening.                    *)
(***************************************************************************)
NextCarriers ==
  \/ \E profileName \in ProfileNames : SetSpeedProfile(profileName)
  \/ \E a \in Ambients : NoiseChanges(a)
  \/ Calibrate
  \/ StartListening

SpecCarriers == Init /\ [][NextCarriers]_vars

(***************************************************************************)
(* setSpeedProfile called at any time on the sender: before and after a    *)
(* calibration, before and after the session starts.                       *)
(***************************************************************************)
NextProfile ==
  \/ \E profileName \in ProfileNames : setSpeedProfile(profileName)
  \/ \E bytes \in SelectableFiles : HandleFileSelect(bytes)
  \/ Calibrate
  \/ StartSending
  \/ SendPreamble

SpecProfile == Init /\ [][NextProfile]_vars

(***************************************************************************)
(* PowerController on its own: adjustPower called with any SNR, reset      *)
(* called at the start of a sender session, in any order.                  *)
(***************************************************************************)
SnrValues ==
  {[nan |-> TRUE, db |-> 0]}
    \cup {[nan |-> FALSE, db |-> d] : d \in {-40, 13, 14, 16, 17, 60}}

\* a tick of the signal monitor while sending: currentSNR = snr, then
\* powerController.adjustPower(snr)
AdjustPower(snr) ==
  /\ currentSNR' = snr
  /\ currentPower' = adjustPower(currentPower, snr)
  /\ UnchangedDevices
  /\ UNCHANGED << lz, disabled, loops, sessions, quick, modem, digest, heard, clock, acks, probe >>

\* powerController.reset(), from startSending
ResetPower ==
  /\ UNCHANGED currentSNR
  /\ currentPower' = InitialPower
  /\ UnchangedDevices
  /\ UNCHANGED << lz, disabled, loops, sessions, quick, modem, digest, heard, clock, acks, probe >>

NextPower ==
  \/ \E snr \in SnrValues : AdjustPower(snr)
  \/ ResetPower

SpecPower == Init /\ [][NextPower]_vars

(***************************************************************************)
(* The modulators on their own.  A bit string is split over the channels   *)
(* of a profile as transmitBinaryChord does and read back slot by slot;    *)
(* and, under the PSK profiles, it is run through modulate and then        *)
(* demodulate.  The bit strings are all those of up to MaxAllBits bits,    *)
(* and those of up to MaxBits bits that are all ones or have a single one  *)
(* (each position of a string is marked by one of them).                   *)
(***************************************************************************)
Zeros(n) == [k \in 1..n |-> 0]

ModemBits ==
  UNION {[1..n -> {0, 1}] : n \in 0..MaxAllBits}
    \cup {[k \in 1..n |-> 1] : n \in 1..MaxBits}
    \cup {[k \in 1..n |-> IF k = j THEN 1 ELSE 0] : n \in 1..MaxBits, j \in 1..MaxBits}

InitModem ==
  /\ InitDevices /\ offered = NothingOffered
  /\ LzIdle /\ ControlsIdle /\ PowerIdle /\ DigestIdle /\ HeardNothing /\ ClockIdle
  /\ NoAcks /\ ProbeIdle
  /\ \E profile \in ProfileNames, b \in ModemBits :
       modem = [NoModem EXCEPT !.pc = "input", !.profile = profile, !.bits = b]

UnchangedBench ==
  UNCHANGED << lz, disabled, loops, sessions, quick, currentPower, currentSNR, digest, heard, clock, acks, probe >>

\* transmitBinaryChord(binaryString): the symbol streams of the channels
Interleave ==
  /\ modem.pc = "input"
  /\ modem' = [modem EXCEPT !.pc = "interleaved",
                            !.streams = transmitBinaryChord(modem.bits, modem.profile)]
  /\ UnchangedDevices /\ UnchangedBench

\* the channels read back slot by slot
Reinterleave ==
  /\ modem.pc = "interleaved"
  /\ modem' = [modem EXCEPT !.pc = "reinterleaved",
                            !.out = reinterleave(modem.streams,
                                                 BITS_PER_SYMBOL(modem.profile))]
  /\ UnchangedDevices /\ UnchangedBench

\* QPSKModulator.modulate / PSK8Modulator.modulate
Modulate ==
  /\ modem.pc = "input" /\ BITS_PER_SYMBOL(modem.profile) > 1
  /\ modem' = [modem EXCEPT !.pc = "modulated",
                            !.symbols = modulate(modem.bits,
                                                 BITS_PER_SYMBOL(modem.profile))]
  /\ UnchangedDevices /\ UnchangedBench

\* QPSKModulator.demodulate / PSK8Modulator.demodulate
Demodulate ==
  /\ modem.pc = "modulated"
  /\ modem' = [modem EXCEPT !.pc = "demodulated",
                            !.out = demodulate(modem.symbols,
                                               BITS_PER_SYMBOL(modem.profile))]
  /\ UnchangedDevices /\ UnchangedBench

NextModem == Interleave \/ Reinterleave \/ Modulate \/ Demodulate

SpecModem == InitModem /\ [][NextModem]_vars

(***************************************************************************)
(* calculateChecksum and crc16 on their own, applied to a byte sequence:   *)
(* the bytes of "Hello", every sequence of up to MaxSumLen bytes over 0, 1 *)
(* and 0xFF, and runs of 0xFF long enough for the sum to pass 0xFFFF.      *)
(***************************************************************************)
Hello == <<72, 101, 108, 108, 111>>

DigestInputs ==
  {Hello}
    \cup UNION {[1..n -> {0, 1, ByteMax}] : n \in 0..MaxSumLen}
    \cup {[k \in 1..n |-> ByteMax] : n \in {257, 258, 300}}

InitDigest ==
  /\ InitDevices /\ offered = NothingOffered
  /\ LzIdle /\ ControlsIdle /\ PowerIdle /\ ModemIdle /\ HeardNothing /\ ClockIdle
  /\ NoAcks /\ ProbeIdle
  /\ \E b \in DigestInputs : digest = [NoDigest EXCEPT !.pc = "input", !.input = b]

\* calculateChecksum(bytes) and crc16(bytes), as startSending calls them
Digest ==
  /\ digest.pc = "input"
  /\ digest' = [digest EXCEPT !.pc = "done",
                              !.checksum = calculateChecksum(digest.input),
                              !.crc = crc16(digest.input)]
  /\ UnchangedDevices
  /\ UNCHANGED << lz, disabled, loops, sessions, quick, currentPower, currentSNR, modem,
                  heard, clock, acks, probe >>

NextDigest == Digest

SpecDigest == InitDigest /\ [][NextDigest]_vars

(***************************************************************************)
(* The reception loop on what the microphone hears.  A chord is the set of *)
(* FSK tones in the air during one tick of checkForSignal, named by the    *)
(* bit it carries on each of the receiver's channels: "silent" carries     *)
(* none, "head" the sync pattern on the first eight channels and 0 on the  *)
(* others, "zeros" 0 on every channel, "tail" 0 on the first four channels *)
(* and 1 on the others, "gap" is "head" with the second channel silent.    *)
(***************************************************************************)
ChordNames == {"silent", "head", "zeros", "tail", "gap"}

\* "ones" carries 1 on every channel

ChordBit(chord, ch) ==
  IF chord = "silent" THEN -1
  ELSE IF chord = "zeros" THEN 0
  ELSE IF chord = "ones" THEN 1
  ELSE IF chord = "tail" THEN (IF ch <= 4 THEN 0 ELSE 1)
  ELSE IF chord = "gap" /\ ch = 2 THEN -1
  ELSE IF ch <= Len(SyncPattern) THEN SyncPattern[ch] ELSE 0

\* the tones of a chord on the carriers the receiver listens on: freq1 of a
\* channel for a 1, freq0 for a 0 (playChord)
HeardTones(chord, frequencies) ==
  {[freq |-> IF ChordBit(chord, ch) = 1
             THEN frequencies[ch] + FSK_DEVIATION
             ELSE frequencies[ch] - FSK_DEVIATION,
    phase |-> 0] : ch \in {d \in 1..Len(frequencies) : ChordBit(chord, d) /= -1}}

InitSync == InitDevices /\ offered = NothingOffered /\ BenchIdle

\* stopListening
StopListening ==
  /\ isListening /\ Len(heard) < MaxTicks
  /\ isListening' = FALSE
  /\ heard' = Append(heard, <<>>)
  /\ UNCHANGED << currentProfile, ambient, air, airSeen, rxFrequencies,
                  receivedChunks, expectedChunks, fileMetadata,
                  totalBytesReceived, receivedData, integrityStatus,
                  demodulationState, delivered >>
  /\ UNCHANGED senderVars
  /\ UNCHANGED packetVars
  /\ UNCHANGED << lz, disabled, loops, sessions, quick, currentPower, currentSNR, modem,
                  digest, clock, acks, probe >>

\* checkForSignal: one tick of the reception loop while the chord sounds
Hear(chord) ==
  /\ isListening /\ Len(heard) < MaxTicks
  /\ LET tones == HeardTones(chord, rxFrequencies)
         d == demodulateChord(tones, currentProfile, rxFrequencies)
     IN /\ air' = tones
        /\ airSeen' = TRUE
        /\ heard' = Append(heard, d.bits)
        /\ IF d.signalDetected
           THEN SetRx(processReceivedBits(Rx, d.bits))
           ELSE UNCHANGED << isListening, receivedChunks, expectedChunks,
                             fileMetadata, totalBytesReceived, receivedData,
                             integrityStatus, demodulationState, delivered >>
  /\ UNCHANGED << currentProfile, ambient, rxFrequencies >>
  /\ UNCHANGED senderVars
  /\ UNCHANGED packetVars
  /\ UNCHANGED << lz, disabled, loops, sessions, quick, currentPower, currentSNR, modem,
                  digest, clock, acks, probe >>

NextSync ==
  \/ \E profileName \in ProfileNames : SetSpeedProfile(profileName)
  \/ StartListening
  \/ StopListening
  \/ \E chord \in ChordNames : Hear(chord)

SpecSync == InitSync /\ [][NextSync]_vars

(***************************************************************************)
(* The reception loop on a sustained sound: the first tick hears "head",   *)
(* every later tick hears "ones", so that after the sync pattern the bit   *)
(* stream holds no packet header and, under ULTRA, no zero byte.           *)
(* clock.frames counts the ticks.                                          *)
(***************************************************************************)
HearTone ==
  /\ isListening /\ clock.frames < MaxToneTicks
  /\ LET chord == IF clock.frames = 0 THEN "head" ELSE "ones"
         tones == HeardTones(chord, rxFrequencies)
         d == demodulateChord(tones, currentProfile, rxFrequencies)
     IN /\ air' = tones
        /\ airSeen' = TRUE
        /\ clock' = [clock EXCEPT !.frames = @ + 1]
        /\ IF d.signalDetected
           THEN SetRx(processReceivedBits(Rx, d.bits))
           ELSE UNCHANGED << isListening, receivedChunks, expectedChunks,
                             fileMetadata, totalBytesReceived, receivedData,
                             integrityStatus, demodulationState, delivered >>
  /\ UNCHANGED << currentProfile, ambient, rxFrequencies >>
  /\ UNCHANGED senderVars
  /\ UNCHANGED packetVars
  /\ UNCHANGED << lz, disabled, loops, sessions, quick, currentPower, currentSNR, modem,
                  digest, heard, acks, probe >>

NextTone ==
  \/ \E profileName \in ProfileNames : SetSpeedProfile(profileName)
  \/ StartListening
  \/ HearTone

SpecTone == InitSync /\ [][NextTone]_vars

(***************************************************************************)
(* sendPacket on its own.  The packets are the META packets of a one-byte  *)
(* file under every name of up to MaxNameLen characters drawn from         *)
(* NameChars (A, e acute, A macron, the euro sign: codes 65, 233, 256,     *)
(* 8364; JSON.stringify copies each of them as it is), its DATA packet     *)
(* and the END packet.                                                     *)
(***************************************************************************)
NameChars == {65, 233, 256, 8364}

FileNames == UNION {[1..n -> NameChars] : n \in 0..MaxNameLen}

NamedFile(name) == [present |-> TRUE, name |-> name, bytes |-> <<65>>]

FrameMessages ==
  {MetaPacket(Metadata(NamedFile(name), <<65>>, FALSE, "STANDARD")) : name \in FileNames}
    \cup {DataPacket(0, btoa(<<65>>)), StrENDCOMPLETE}

InitFrame ==
  /\ InitDevices /\ offered = NothingOffered
  /\ LzIdle /\ ControlsIdle /\ PowerIdle /\ ModemIdle /\ DigestIdle /\ HeardNothing
  /\ ClockIdle /\ NoAcks
  /\ \E message \in FrameMessages :
       probe = [NoProbe EXCEPT !.pc = "message", !.message = message]

\* sendPacket(message), up to the frame handed to transmitBinaryChord
SendPacket ==
  /\ probe.pc = "message"
  /\ probe' = [probe EXCEPT !.pc = "framed", !.frame = Frame(probe.message)]
  /\ UnchangedDevices
  /\ UNCHANGED << lz, disabled, loops, sessions, quick, currentPower, currentSNR, modem,
                  digest, heard, clock, acks >>

NextFrame == SendPacket

SpecFrame == InitFrame /\ [][NextFrame]_vars

(***************************************************************************)
(* demodulateChord on one channel.  The two bins of the channel hold any   *)
(* magnitudes an analyser byte can take.                                   *)
(***************************************************************************)
Magnitudes == 0..ByteMax

InitThreshold ==
  /\ InitDevices /\ offered = NothingOffered
  /\ LzIdle /\ ControlsIdle /\ PowerIdle /\ ModemIdle /\ DigestIdle /\ HeardNothing
  /\ ClockIdle /\ NoAcks
  /\ \E amp0 \in Magnitudes, amp1 \in Magnitudes :
       probe = [NoProbe EXCEPT !.pc = "spectrum", !.amp0 = amp0, !.amp1 = amp1]

\* the body of the channel loop of demodulateChord
ReadChannel ==
  /\ probe.pc = "spectrum"
  /\ probe' = [probe EXCEPT !.pc = "read",
                            !.bit = demodulateChannel(probe.amp0, probe.amp1)]
  /\ UnchangedDevices
  /\ UNCHANGED << lz, disabled, loops, sessions, quick, currentPower, currentSNR, modem,
                  digest, heard, clock, acks >>

NextThreshold == ReadChannel

SpecThreshold == InitThreshold /\ [][NextThreshold]_vars

(***************************************************************************)
(* The reception loop against the clock.  The sender plays the frame of a  *)
(* one-character packet on the receiver's carriers, slot k from            *)
(* k * SYMBOL_DURATION ms after the loop started; requestAnimationFrame    *)
(* calls checkForSignal back every FrameTimes ms (a 100 Hz and a 60 Hz     *)
(* display).                                                               *)
(***************************************************************************)
FrameTimes == {10, 16}

PlayedFrame(profile) == transmitBinaryChord(Frame(<<65>>), profile)

\* the slot on the air at a time, 0-based (playChord resolves after
\* SYMBOL_DURATION ms)
SlotAt(now, profile) == (now - Epoch) \div SYMBOL_DURATION(profile)

InitTiming == InitDevices /\ offered = NothingOffered /\ BenchIdle

\* checkForSignal, called back dt ms after the previous callback
AnimationFrame(dt) ==
  /\ isListening /\ clock.frames < MaxFrames
  /\ LET now == clock.now + dt
         slot == SlotAt(now, currentProfile)
         playing == slot < MaxLen(PlayedFrame(currentProfile))
         tones == IF playing
                  THEN ChordOf(PlayedFrame(currentProfile), slot, currentProfile,
                               rxFrequencies)
                  ELSE {}
         d == demodulateChord(tones, currentProfile, rxFrequencies)
     IN IF now - clock.lastCheckTime < 20
        THEN /\ clock' = [clock EXCEPT !.now = now, !.frames = @ + 1]
             /\ UNCHANGED << air, airSeen, heard, isListening, receivedChunks,
                             expectedChunks, fileMetadata, totalBytesReceived,
                             receivedData, integrityStatus, demodulationState,
                             delivered >>
        ELSE /\ clock' = [clock EXCEPT !.now = now, !.frames = @ + 1,
                                       !.lastCheckTime = now,
                                       !.sampled = IF playing THEN Append(@, slot)
                                                   ELSE @]
             /\ air' = tones
             /\ airSeen' = TRUE
             /\ heard' = Append(heard, d.bits)
             /\ IF d.signalDetected
                THEN SetRx(processReceivedBits(Rx, d.bits))
                ELSE UNCHANGED << isListening, receivedChunks, expectedChunks,
                                  fileMetadata, totalBytesReceived, receivedData,
                                  integrityStatus, demodulationState, delivered >>
  /\ UNCHANGED << currentProfile, ambient, rxFrequencies >>
  /\ UNCHANGED senderVars
  /\ UNCHANGED packetVars
  /\ UNCHANGED << lz, disabled, loops, sessions, quick, currentPower, currentSNR, modem,
                  digest, acks, probe >>

NextTiming ==
  \/ \E profileName \in ProfileNames : SetSpeedProfile(profileName)
  \/ StartListening
  \/ \E dt \in FrameTimes : AnimationFrame(dt)

SpecTiming == InitTiming /\ [][NextTiming]_vars

(***************************************************************************)
(* One device and its controls.  The handlers of the buttons are async:    *)
(* each runs up to its await, and what follows the await is a later step.  *)
(* A click reaches its handler only while the button is not disabled.      *)
(* loops holds one entry per call of startListening: calibrating until     *)
(* performCalibration resolves, running while its checkForSignal is        *)
(* rescheduled, ended once checkForSignal has returned without             *)
(* rescheduling; stopped is raised by the stopListening calls after it,    *)
(* late records that it has processed a tick after that.  sessions holds   *)
(* one entry per call of startSending: sending until transmitFileWithAck   *)
(* has set isSending to false.                                             *)
(***************************************************************************)
transmitVars == << txRetry, txResent, txPc, txData, txMeta, txChunk, txCount,
                   txStreams, txSlot, onAir >>

receptionVars == << receivedChunks, expectedChunks, fileMetadata,
                    totalBytesReceived, receivedData, integrityStatus,
                    demodulationState, delivered >>

InitControls ==
  /\ InitDevices /\ offered = NothingOffered /\ BenchIdle

\* handleFileSelect with a file
SelectFile ==
  /\ ~selectedFile.present
  /\ selectedFile' = [present |-> TRUE, name |-> FileName, bytes |-> <<65>>]
  /\ disabled' = [disabled EXCEPT !.quickSendBtn = FALSE,
                                  !.sendBtn = IF isCalibrated THEN FALSE ELSE @]
  /\ UNCHANGED << currentProfile, ambient, air, airSeen, optimalFrequencies,
                  isCalibrated, isSending, chunkRetryMap, lz, currentPower, currentSNR, modem, digest, heard, clock, acks, probe, loops, sessions,
                  quick >>
  /\ UNCHANGED << transmitVars, receiverVars, packetVars >>

\* manualCalibrate, its calibration included
ManualCalibrate ==
  /\ selectedFile.present /\ ~isCalibrated
  /\ optimalFrequencies' = analyzeCalibrationData(ambient, currentProfile)
  /\ isCalibrated' = TRUE
  /\ disabled' = [disabled EXCEPT !.sendBtn = FALSE]
  /\ UNCHANGED << currentProfile, ambient, air, airSeen, selectedFile,
                  isSending, chunkRetryMap, lz, currentPower, currentSNR, modem, digest, heard, clock, acks, probe, loops, sessions, quick >>
  /\ UNCHANGED << transmitVars, receiverVars, packetVars >>

\* startSending up to reader.readAsArrayBuffer: a click on sendBtn or the
\* timer of quickSend
startSession ==
  /\ Len(sessions) < MaxSends
  /\ IF ~selectedFile.present \/ optimalFrequencies = <<>>
     THEN UNCHANGED << isSending, chunkRetryMap, disabled, sessions >>
     ELSE /\ isSending' = TRUE
          /\ chunkRetryMap' = EmptyMap
          /\ disabled' = [disabled EXCEPT !.sendBtn = TRUE, !.quickSendBtn = TRUE]
          /\ sessions' = Append(sessions, "sending")
  /\ UNCHANGED << currentProfile, ambient, air, airSeen, selectedFile,
                  optimalFrequencies, isCalibrated, lz, currentPower, currentSNR, modem, digest, heard, clock, acks, probe, loops >>
  /\ UNCHANGED << transmitVars, receiverVars, packetVars >>

ClickSend ==
  /\ ~disabled.sendBtn
  /\ startSession
  /\ UNCHANGED quick

\* quickSend up to its await
ClickQuickSend ==
  /\ ~disabled.quickSendBtn /\ quick = "idle"
  /\ selectedFile.present
  /\ disabled' = [disabled EXCEPT !.quickSendBtn = TRUE]
  /\ quick' = "calibrating"
  /\ UNCHANGED << currentProfile, ambient, air, airSeen, selectedFile,
                  optimalFrequencies, isCalibrated, isSending, chunkRetryMap,
                  lz, currentPower, currentSNR, modem, digest, heard, clock, acks, probe, loops, sessions >>
  /\ UNCHANGED << transmitVars, receiverVars, packetVars >>

\* quickSend after its await: the calibration has resolved, the timer is set
QuickCalibrated ==
  /\ quick = "calibrating"
  /\ optimalFrequencies' = analyzeCalibrationData(ambient, currentProfile)
  /\ isCalibrated' = TRUE
  /\ quick' = "timer"
  /\ UNCHANGED << currentProfile, ambient, air, airSeen, selectedFile,
                  isSending, chunkRetryMap, lz, currentPower, currentSNR, modem, digest, heard, clock, acks, probe, disabled, loops, sessions >>
  /\ UNCHANGED << transmitVars, receiverVars, packetVars >>

\* the timer of quickSend: startSending()
QuickTimer ==
  /\ quick = "timer"
  /\ startSession
  /\ quick' = "idle"

\* the end of transmitFileWithAck for the k-th call of startSending
SessionEnds(k) ==
  /\ sessions[k] = "sending"
  /\ sessions' = [sessions EXCEPT ![k] = "done"]
  /\ isSending' = FALSE
  /\ disabled' = [disabled EXCEPT !.sendBtn = FALSE, !.quickSendBtn = FALSE]
  /\ UNCHANGED << currentProfile, ambient, air, airSeen, selectedFile,
                  optimalFrequencies, isCalibrated, chunkRetryMap, lz, currentPower, currentSNR, modem, digest, heard, clock, acks, probe, loops,
                  quick >>
  /\ UNCHANGED << transmitVars, receiverVars, packetVars >>

\* startListening up to its await
ClickListen ==
  /\ ~disabled.listenBtn /\ Len(loops) < MaxListens
  /\ isListening' = TRUE
  /\ receivedChunks' = EmptyMap
  /\ receivedData' = NoData
  /\ fileMetadata' = NoMetadata
  /\ expectedChunks' = 0
  /\ totalBytesReceived' = 0
  /\ disabled' = [disabled EXCEPT !.listenBtn = TRUE, !.stopListenBtn = FALSE]
  /\ loops' = Append(loops, [state |-> "calibrating", stopped |-> FALSE,
                             late |-> FALSE])
  /\ UNCHANGED << currentProfile, ambient, air, airSeen, rxFrequencies,
                  integrityStatus, demodulationState, delivered, lz, currentPower, currentSNR, modem, digest, heard, clock, acks, probe, sessions,
                  quick >>
  /\ UNCHANGED << senderVars, packetVars >>

\* startListening after its await: the calibration of the k-th call has
\* resolved, startReceptionLoop() schedules checkForSignal
ListenCalibrated(k) ==
  /\ loops[k].state = "calibrating"
  /\ loops' = [loops EXCEPT ![k].state = "running"]
  /\ optimalFrequencies' = analyzeCalibrationData(ambient, currentProfile)
  /\ rxFrequencies' = analyzeCalibrationData(ambient, currentProfile)
  /\ isCalibrated' = TRUE
  /\ UNCHANGED << currentProfile, ambient, air, airSeen, selectedFile,
                  isSending, chunkRetryMap, isListening, lz, currentPower, currentSNR, modem, digest, heard, clock, acks, probe, disabled, sessions,
                  quick >>
  /\ UNCHANGED << transmitVars, receptionVars, packetVars >>

\* stopListening
ClickStop ==
  /\ ~disabled.stopListenBtn
  /\ isListening' = FALSE
  /\ disabled' = [disabled EXCEPT !.listenBtn = FALSE, !.stopListenBtn = TRUE]
  /\ loops' = [k \in 1..Len(loops) |-> [loops[k] EXCEPT !.stopped = TRUE]]
  /\ UNCHANGED << currentProfile, ambient, air, airSeen, rxFrequencies, lz, currentPower, currentSNR, modem, digest, heard, clock, acks, probe,
                  sessions, quick >>
  /\ UNCHANGED << senderVars, receptionVars, packetVars >>

\* checkForSignal of the k-th reception loop: it returns when isListening
\* is false, else it processes a tick and reschedules itself
checkForSignal(k) ==
  /\ loops[k].state = "running"
  /\ loops' = IF ~isListening
              THEN [loops EXCEPT ![k].state = "ended"]
              ELSE [loops EXCEPT ![k].late = loops[k].stopped]
  /\ UNCHANGED << currentProfile, ambient, air, airSeen, lz, currentPower, currentSNR, modem, digest, heard, clock, acks, probe, disabled,
                  sessions, quick >>
  /\ UNCHANGED << senderVars, receiverVars, packetVars >>

NextControls ==
  \/ SelectFile
  \/ ManualCalibrate
  \/ ClickSend
  \/ ClickQuickSend
  \/ QuickCalibrated
  \/ QuickTimer
  \/ \E k \in 1..Len(sessions) : SessionEnds(k)
  \/ ClickListen
  \/ \E k \in 1..Len(loops) : ListenCalibrated(k)
  \/ ClickStop
  \/ \E k \in 1..Len(loops) : checkForSignal(k)

SpecControls == InitControls /\ [][NextControls]_vars

(***************************************************************************)
(* Properties.                                                             *)
(***************************************************************************)

\* C1: when sender and receiver use the same profile and the same carriers
\* and the receiver samples every chord the sender plays, a sender session
\* that has run to completion has made the receiver deliver an artifact
\* whose bytes are the selected file's bytes.
C1_RoundTrip ==
  (/\ txPc = "done" /\ airSeen
   /\ rxFrequencies /= <<>> /\ rxFrequencies = optimalFrequencies)
  => /\ receivedData.present
     /\ receivedData.bytes = selectedFile.bytes

\* C2: every buffer the synchronizer hands to processPacket is a complete
\* packet body of the sender's session: its META packet, one of its DATA
\* packets, or END:COMPLETE; never a proper prefix of one.
C2_CompleteBodies ==
  \A k \in 1..Len(delivered) :
    LET body == delivered[k]
    IN IF StartsWith(body, StrMETA) THEN body = MetaPacket(txMeta)
       ELSE IF StartsWith(body, StrEND) THEN body = StrENDCOMPLETE
       ELSE \E i \in 0..(TotalChunks(txData) - 1) :
              body = DataPacket(i, EncodeChunk(Chunk(txData, i), currentProfile))

\* C3: in a receiver session the payload stored under an index is the
\* payload of the first DATA packet of the session that carried the index,
\* and a DATA packet whose index is already stored changes neither
\* receivedChunks nor totalBytesReceived.
C3_FirstWins ==
  /\ [](receivedChunks = rxFirst)
  /\ [][(/\ rxCount' = rxCount + 1
         /\ lastPacket'.kind = "DATA"
         /\ lastPacket'.idx \in DOMAIN rxFirst)
        => /\ receivedChunks' = receivedChunks
           /\ totalBytesReceived' = totalBytesReceived]_vars

\* a DATA packet has arrived whose index was stored with another payload
C3_Witness ==
  /\ lastPacket.kind = "DATA"
  /\ lastPacket.idx \in DOMAIN receivedChunks
  /\ receivedChunks[lastPacket.idx] /= lastPacket.payload
  /\ DOMAIN receivedChunks = {0, 1}

\* C4: what a sender session has put on the air is at every moment a prefix
\* of: three preamble chords, the META packet, the DATA packets 0, 1, ...,
\* chunks-1 in ascending order, two END:COMPLETE packets; and it is the
\* whole of that sequence once the session has completed.
C4_OnAirOrder ==
  LET kinds == [k \in 1..Len(onAir) |-> << onAir[k].type, onAir[k].idx >>]
      expected == << <<"PRE", -1>>, <<"PRE", -1>>, <<"PRE", -1>>, <<"META", -1>> >>
                  \o [i \in 1..txMeta.chunks |-> <<"DATA", i - 1>>]
                  \o << <<"END", -1>>, <<"END", -1>> >>
  IN /\ Len(kinds) <= Len(expected)
     /\ kinds = SubSeq(expected, 1, Len(kinds))
     /\ txPc = "done" => kinds = expected

\* a completed session of a file of several chunks
C4_Witness ==
  /\ txPc = "done"
  /\ txMeta.chunks >= 2
  /\ Len(onAir) = 6 + txMeta.chunks

\* C5: when reassembly has run with the sender's metadata and every index
\* 0..chunks-1 stored with the payload the sender transmitted, the artifact
\* is the sender's original file and the status is verified, whether or
\* not the transfer is compressed.
C5_CompleteIsVerified ==
  (/\ receivedData.present
   /\ fileMetadata.present
   /\ NumVal(Field(fileMetadata.obj, KeyChecksum)) = offered.meta.checksum
   /\ \A k \in 1..Len(offered.packets) :
        (offered.packets[k].kind = "DATA" /\ offered.packets[k].sent)
        => /\ offered.packets[k].idx \in DOMAIN receivedChunks
           /\ receivedChunks[offered.packets[k].idx] = offered.packets[k].payload)
  => /\ receivedData.bytes = offered.file
     /\ Len(receivedData.bytes) = offered.meta.originalSize
     /\ integrityStatus = "verified"

\* C6: the status of a delivered artifact is mismatch exactly when the
\* checksum recomputed over its bytes differs from the checksum of the
\* metadata, and verified exactly when the two are equal, whatever the
\* metadata's checksum, 0 included.
C6_MismatchIffDiffers ==
  (receivedData.present /\ fileMetadata.present)
  => LET differs == calculateChecksum(receivedData.bytes)
                      /= NumVal(Field(fileMetadata.obj, KeyChecksum))
     IN /\ (integrityStatus = "mismatch") <=> differs
        /\ (integrityStatus = "verified") <=> ~differs

\* C7: a receiver that has processed the META packet of a zero-length file
\* (chunks 0) and then END:COMPLETE, with no DATA packet in between, has
\* delivered an artifact of zero bytes.
C7_EmptyFileDelivered ==
  (/\ offered.file = <<>>
   /\ fileMetadata.present /\ expectedChunks = 0
   /\ rxFirst = EmptyMap
   /\ lastPacket.kind = "END")
  => /\ receivedData.present
     /\ receivedData.bytes = <<>>

\* C8: when reassembly has run while an index below expectedChunks was
\* absent and at least one chunk was present, the artifact is shorter than
\* the original by the missing bytes and its status is mismatch.  (Stated
\* for metadata whose checksum is not 0.)
C8_GapIsMismatch ==
  (/\ receivedData.present /\ fileMetadata.present
   /\ NumVal(Field(fileMetadata.obj, KeyChecksum)) /= 0
   /\ DOMAIN receivedChunks /= {}
   /\ \E i \in 0..(expectedChunks - 1) : i \notin DOMAIN receivedChunks)
  => /\ Len(receivedData.bytes) < offered.meta.originalSize
     /\ integrityStatus = "mismatch"

C10_CompressionDecision ==
  (txPc = "preamble" /\ txCount = 0)
  => LET file == selectedFile.bytes
         shorter == /\ USE_COMPRESSION
                    /\ Len(file) > COMPRESSION_MIN_SIZE
                    /\ Len(compress(file)) < Len(file)
     IN /\ txMeta.compressed = shorter
        /\ txData = IF shorter THEN compress(file) ELSE file
        /\ txMeta.size = Len(txData)
        /\ txMeta.originalSize = Len(file)
        /\ txMeta.size <= txMeta.originalSize

\* a session that starts with the compressed form of a file
C10_Witness ==
  /\ txPc = "preamble" /\ txCount = 0
  /\ txMeta.compressed
  /\ txMeta.size < Len(selectedFile.bytes)

\* C11: decompress applied to the result of compress returns the original
\* byte sequence, for every byte sequence: empty, with bytes equal to 0xFF,
\* with runs that compress to overlapping matches.
C11_RoundTrip ==
  lz.pc = "decompressed" => lz.data = lz.input

\* C12: sendPacketWithAck sends its packet once and reports success, so no
\* DATA index is on the air twice, no attempt of the retry loop is ever a
\* second one, chunkRetryMap is empty during and after the chunk loop, the
\* retry pass sends nothing, and once the chunk loop is over every index
\* below the number of chunks has been sent exactly once.
C12_OneShot ==
  LET data == {i \in 1..Len(onAir) : onAir[i].type = "DATA"}
  IN /\ \A i, j \in data : onAir[i].idx = onAir[j].idx => i = j
     /\ txRetry = 0
     /\ chunkRetryMap = EmptyMap
     /\ txResent = 0
     /\ txPc \in {"end2", "finish", "done"}
          => \A c \in 0..(TotalChunks(txData) - 1) :
               Cardinality({i \in data : onAir[i].idx = c}) = 1

\* a session of several chunks has run to its end
C12_Witness ==
  /\ txPc = "done"
  /\ TotalChunks(txData) >= 2
  /\ Cardinality({i \in 1..Len(onAir) : onAir[i].type = "DATA"})
       = TotalChunks(txData)

\* C13: a packet body that cannot be parsed (META with damaged JSON, DATA
\* with a non-numeric index, an unknown tag, fewer than 5 characters) is
\* dropped: receivedChunks, fileMetadata, expectedChunks and what was
\* delivered so far stay as they were, the synchronizer is hunting again
\* with an empty packet buffer, and the session is still listening.
C13_UnparsableDropped ==
  [][(rxCount' = rxCount + 1 /\ lastPacket'.kind = "BAD")
       => /\ receivedChunks' = receivedChunks
          /\ fileMetadata' = fileMetadata
          /\ expectedChunks' = expectedChunks
          /\ totalBytesReceived' = totalBytesReceived
          /\ receivedData' = receivedData
          /\ integrityStatus' = integrityStatus
          /\ demodulationState'.packetBuffer = <<>>
          /\ ~demodulationState'.syncDetected
          /\ isListening']_vars

\* an unparsable body has reached a session that holds metadata and chunks
C13_Witness ==
  /\ lastPacket.kind = "BAD"
  /\ fileMetadata.present
  /\ DOMAIN receivedChunks /= {}
  /\ isListening

\* C14: once stopListening has been called for a receiver session, the
\* reception loop of that session processes no further tick.  (The sender
\* half of the claim has nothing to be stated about: the program has no
\* operation that stops a sender session.)
C14_StoppedLoopIsSilent ==
  \A k \in 1..Len(loops) : ~loops[k].late

\* C15: at every moment at most one call of startSending is between its
\* start and the end of its transmitFileWithAck, and at most one reception
\* loop is processing ticks.
C15_OneSessionEach ==
  /\ Cardinality({k \in 1..Len(sessions) : sessions[k] = "sending"}) <= 1
  /\ isListening
       => Cardinality({k \in 1..Len(loops) : loops[k].state = "running"}) <= 1

\* C16: under each profile and each noise floor, a device that calibration
\* has marked calibrated holds exactly NUM_CHANNELS carriers, the i-th at
\* base + i * CHANNEL_SPACING, strictly ascending, each within
\* [FREQ_MIN, FREQ_MAX].
C16_Carriers ==
  isCalibrated =>
    LET n == NUM_CHANNELS(currentProfile)
        spacing == CHANNEL_SPACING(currentProfile)
    IN /\ Len(optimalFrequencies) = n
       /\ \A i \in 1..n :
            /\ optimalFrequencies[i] = optimalFrequencies[1] + (i - 1) * spacing
            /\ optimalFrequencies[i] >= FREQ_MIN
            /\ optimalFrequencies[i] <= FREQ_MAX
       /\ \A i \in 1..(n - 1) :
            /\ optimalFrequencies[i] < optimalFrequencies[i + 1]
            /\ optimalFrequencies[i + 1] - optimalFrequencies[i] = spacing

\* a calibration under STANDARD in a room whose quietest band is the
\* highest one the search reaches
C16_Witness ==
  /\ isCalibrated
  /\ currentProfile = "STANDARD" /\ ambient = "pink"
  /\ Len(optimalFrequencies) = NUM_CHANNELS("STANDARD")
  /\ optimalFrequencies[1] > FREQ_MIN

\* C18: after any sequence of adjustPower calls, with any SNR, and resets,
\* the power is within [MIN_POWER, MAX_POWER].
C18_PowerInRange ==
  currentPower >= MIN_POWER /\ currentPower <= MAX_POWER

\* raising steps have driven the power to its upper limit
C18_Witness == currentPower = MAX_POWER

\* C19: under every profile, with N channels, reading the channels back
\* slot by slot in ascending channel order after the round-robin split of
\* a bit string s gives s followed by at most N - 1 zero bits.
C19_InterleaveRoundTrip ==
  modem.pc = "reinterleaved"
    => \E pad \in 0..(NUM_CHANNELS(modem.profile) - 1) :
         modem.out = modem.bits \o Zeros(pad)

\* C20: for QPSK and 8-PSK, demodulate applied to the result of modulate
\* gives the bit string followed by zeros up to the next multiple of the
\* bits per symbol.
C20_PskRoundTrip ==
  modem.pc = "demodulated"
    => LET bps == BITS_PER_SYMBOL(modem.profile)
       IN modem.out = modem.bits \o Zeros((bps - (Len(modem.bits) % bps)) % bps)

\* an 8-PSK round trip of a bit string that ends inside a symbol and has a
\* one in that symbol
C20_Witness ==
  /\ modem.pc = "demodulated"
  /\ BITS_PER_SYMBOL(modem.profile) = 3
  /\ Len(modem.bits) % 3 = 1
  /\ modem.bits[Len(modem.bits)] = 1

\* C21 as stated: for the bytes of "Hello" calculateChecksum returns 0x01FE
\* (510) and crc16 returns 0xD26E (53870).
C21_HelloAsStated ==
  (digest.pc = "done" /\ digest.input = Hello)
    => digest.checksum = 510 /\ digest.crc = 53870

\* C21: calculateChecksum returns the sum of the bytes modulo 2^16, crc16
\* returns a value in 0..0xFFFF and 0xFFFF for the empty sequence; for the
\* bytes of "Hello" they return 0x01F4 (500) and 0xF377 (62327).
C21_Digests ==
  digest.pc = "done"
    => /\ digest.checksum
            = FoldRange(LAMBDA sum, i : sum + digest.input[i], 0, 1,
                        Len(digest.input)) % 65536
       /\ digest.crc \in 0..65535
       /\ digest.input = <<>> => digest.crc = 65535
       /\ digest.input = Hello => digest.checksum = 500 /\ digest.crc = 62327

\* the digests of "Hello" have been computed
C21_Witness ==
  digest.pc = "done" /\ digest.input = Hello

\* the bits a tick appends to the bit stream: the last entry of heard
\* without its nulls
TickBits == SelectSeq(heard'[Len(heard')], LAMBDA b : b /= -1)

\* a tick of the reception loop that handed bits to processReceivedBits
Ticked ==
  /\ isListening /\ Len(heard') = Len(heard) + 1
  /\ \E ch \in DOMAIN heard'[Len(heard')] : heard'[Len(heard')][ch] /= -1

\* the 0-based positions at which the sync pattern starts in a bit stream
SyncAt(stream) ==
  {i \in 0..(Len(stream) - Len(SyncPattern)) :
      SubSeq(stream, i + 1, i + Len(SyncPattern)) = SyncPattern}

\* C22: a tick while hunting raises syncDetected exactly when the bit stream
\* with the tick's bits contains 10101010, and then keeps only the bits
\* after the first occurrence; a tick while framed that has eight bits
\* assembles the first eight of them as the next byte of packetBuffer.
C22_SyncEntry ==
  [][Ticked =>
       LET ds == demodulationState
           stream == ds.bitStream \o TickBits
           first == CHOOSE i \in SyncAt(stream) : \A k \in SyncAt(stream) : i <= k
           byte == Append(ds.packetBuffer, BitsVal(SubSeq(stream, 1, 8), 8))
       IN IF ~ds.syncDetected
          THEN /\ demodulationState'.syncDetected <=> SyncAt(stream) /= {}
               /\ demodulationState'.syncDetected
                    => demodulationState'.bitStream
                         = SubSeq(stream, first + Len(SyncPattern) + 1, Len(stream))
          ELSE Len(stream) >= 8
                 => LET assembled == IF Len(delivered') > Len(delivered)
                                     THEN delivered'[Len(delivered) + 1]
                                     ELSE demodulationState'.packetBuffer
                    IN /\ Len(assembled) >= Len(byte)
                       /\ SubSeq(assembled, 1, Len(byte)) = byte
  ]_vars

\* framed, with the byte that followed the sync pattern in packetBuffer
C22_Witness ==
  /\ isListening /\ demodulationState.syncDetected
  /\ Len(demodulationState.packetBuffer) = 1
  /\ delivered = <<>>

\* C23: whenever the synchronizer is hunting (syncDetected is false),
\* packetBuffer is empty: bits are assembled into bytes only while framed.
C23_HuntingBufferEmpty ==
  ~demodulationState.syncDetected => demodulationState.packetBuffer = <<>>

\* C25: a tick in which some channel is above the threshold appends exactly
\* NUM_CHANNELS bits to the bit stream (seen on the ticks that stay hunting,
\* where the bit stream only grows).
C25_WholeChordAppended ==
  [][(Ticked /\ ~demodulationState.syncDetected /\ ~demodulationState'.syncDetected)
       => Len(demodulationState'.bitStream)
            = Len(demodulationState.bitStream) + NUM_CHANNELS(currentProfile)]_vars

\* C24: the ticks of the reception loop sample the slots the sender plays
\* once each and in slot order: the k-th tick that samples the frame samples
\* slot k - 1.
C24_EachSlotOnce ==
  \A k \in 1..Len(clock.sampled) : clock.sampled[k] = k - 1

\* C26: when a receiver session starts, the synchronizer is hunting with an
\* empty bit stream and an empty packetBuffer, receivedChunks is empty, there
\* is no metadata and expectedChunks is 0.
C26_FreshSession ==
  [][(~isListening /\ isListening')
       => /\ demodulationState' = [bitStream |-> <<>>, packetBuffer |-> <<>>,
                                   syncDetected |-> FALSE]
          /\ receivedChunks' = EmptyMap
          /\ fileMetadata' = NoMetadata
          /\ expectedChunks' = 0]_vars

\* C27: once the sender is calibrated and the receiver listens, the carriers
\* the receiver demodulates on are the carriers the sender transmits on.
C27_SameCarriers ==
  (isCalibrated /\ isListening) => rxFrequencies = optimalFrequencies

\* a carrier list of the profile: NUM_CHANNELS carriers, CHANNEL_SPACING apart
CarriersOf(profile, frequencies) ==
  /\ Len(frequencies) = NUM_CHANNELS(profile)
  /\ \A i \in 2..Len(frequencies) :
        frequencies[i] - frequencies[i - 1] = CHANNEL_SPACING(profile)

\* C28: when a sender session starts, the carriers it will transmit on are
\* NUM_CHANNELS carriers of the active profile at its spacing (sending is
\* refused until they are).
C28_CarriersMatchProfile ==
  [][(~isSending /\ isSending') => CarriersOf(currentProfile, optimalFrequencies)]_vars

\* C29: a receiver session delivers at most one file: when reconstructFile
\* has set receivedData the session is no longer listening, and as long as
\* receivedData is set no packet changes it or the integrity verdict.
C29_OneArtifact ==
  [][/\ receivedData'.present => ~isListening'
     /\ (receivedData.present /\ receivedData'.present)
          => (receivedData' = receivedData /\ integrityStatus' = integrityStatus)
    ]_vars

\* a file has been delivered on END and the session is stopped
C29_Witness ==
  /\ receivedData.present /\ ~isListening
  /\ lastPacket.kind = "END"

\* C30: every key of receivedChunks is an index i with 0 <= i < expectedChunks.
C30_KeysInRange ==
  \A i \in DOMAIN receivedChunks : 0 <= i /\ i < expectedChunks

\* the results of the chunk loop's attempts of chunk c, in order
MainAttempts(c) == SelectSeq(acks, LAMBDA a : a.idx = c /\ ~a.retry)

\* the sends of chunk c by the retry pass
Resends(c) == SelectSeq(acks, LAMBDA a : a.idx = c /\ a.retry)

\* C31: with a sendPacketWithAck that may return false, the chunk loop
\* attempts a chunk at most MAX_RETRIES times and stops at the first attempt
\* that succeeds; a chunk is in chunkRetryMap exactly when MAX_RETRIES
\* attempts of it failed; the retry pass sends every chunk of chunkRetryMap
\* once and no other chunk; and the session ends with two END packets.
C31_RetryDiscipline ==
  /\ \A c \in 0..(TotalChunks(txData) - 1) :
        LET main == MainAttempts(c)
        IN /\ Len(main) <= MAX_RETRIES
           /\ \A k \in 1..(Len(main) - 1) : ~main[k].sent
           /\ c \in DOMAIN chunkRetryMap
                <=> (Len(main) = MAX_RETRIES /\ \A k \in 1..Len(main) : ~main[k].sent)
           /\ Len(Resends(c)) <= (IF c \in DOMAIN chunkRetryMap THEN 1 ELSE 0)
           /\ txPc \in {"end2", "finish", "done"}
                => /\ Len(main) >= 1
                   /\ c \in DOMAIN chunkRetryMap => Len(Resends(c)) = 1
  /\ txPc = "done"
       => Cardinality({i \in 1..Len(onAir) : onAir[i].type = "END"}) = 2

\* a session has ended in which a chunk failed MAX_RETRIES times and was
\* sent again, and another chunk succeeded at its second attempt
C31_Witness ==
  /\ txPc = "done"
  /\ \E c \in DOMAIN chunkRetryMap : Len(Resends(c)) = 1
  /\ \E c \in 0..(TotalChunks(txData) - 1) :
        Len(MainAttempts(c)) = 2 /\ MainAttempts(c)[2].sent

\* C32: packetBuffer never holds more than 5000 characters when a tick ends;
\* a tick in which it shrinks without a delivery (the overflow) started
\* within two characters of the limit, leaves the synchronizer hunting and
\* leaves receivedChunks, fileMetadata and expectedChunks as they were.
C32_Overflow ==
  [][/\ Len(demodulationState'.packetBuffer) <= OverflowLimit
     /\ (/\ demodulationState.syncDetected
         /\ Len(demodulationState'.packetBuffer) < Len(demodulationState.packetBuffer)
         /\ delivered' = delivered)
          => /\ Len(demodulationState.packetBuffer) >= OverflowLimit - 1
             /\ ~demodulationState'.syncDetected
             /\ UNCHANGED << receivedChunks, fileMetadata, expectedChunks >>
    ]_vars

\* the overflow has happened: the session is hunting again after more than
\* 5000 characters, and nothing was delivered
C32_Witness ==
  /\ isListening /\ ~demodulationState.syncDetected
  /\ clock.frames * NUM_CHANNELS(currentProfile) > 8 * OverflowLimit
  /\ Len(demodulationState.packetBuffer) <= 2
  /\ delivered = <<>>

\* C33: when a tick ends the bit stream holds at most 1000 bits while the
\* synchronizer is hunting and fewer than 8 bits while it is framed.
C33_BitStreamBounded ==
  IF demodulationState.syncDetected
  THEN Len(demodulationState.bitStream) < Len(SyncPattern)
  ELSE Len(demodulationState.bitStream) <= HuntLimit

\* the eight bits of a character code below 256, most significant first
Bits8(code) == [k \in 1..8 |-> (code \div Pow2(8 - k)) % 2]

\* C34: the frame of a packet is 10101010, then exactly eight bits for each
\* character of the body, then 01010101: 16 + 8 * (body length) bits, also
\* for a META body whose filename has characters of code above 255.
C34_EightBitsPerCharacter ==
  probe.pc = "framed"
    => /\ Len(probe.frame) = 16 + 8 * Len(probe.message)
       /\ SubSeq(probe.frame, 1, 8) = SyncPattern
       /\ SubSeq(probe.frame, Len(probe.frame) - 7, Len(probe.frame)) = EndPattern
       /\ \A i \in 1..Len(probe.message) :
             probe.message[i] < 256
               => SubSeq(probe.frame, 8 * i + 1, 8 * i + 8) = Bits8(probe.message[i])

\* C35: under every profile the channels of a frame carry the same number
\* of symbols, so that in every slot of the frame each of the NUM_CHANNELS
\* channels has a symbol to play.
C35_EqualStreams ==
  \A symbolIdx \in 0..(MaxLen(txStreams) - 1) :
    \A c \in 1..NUM_CHANNELS(currentProfile) :
      symbolIdx < Len(txStreams[c])

\* the matches decompress reads in a stream, each with the number of bytes
\* written before it: the reading of decompressStep, without the copying
readMatches(data) ==
  FoldRange(LAMBDA st, k :
              IF k < st.pos THEN st
              ELSE IF data[k + 1] = 255 /\ k + 3 < Len(data)
                   THEN [pos |-> k + 4,
                         written |-> st.written + data[k + 4],
                         matches |-> Append(st.matches,
                                            [distance |-> data[k + 2] * 256 + data[k + 3],
                                             length |-> data[k + 4],
                                             written |-> st.written])]
                   ELSE [st EXCEPT !.pos = k + 1, !.written = st.written + 1],
            [pos |-> 4, written |-> 0, matches |-> <<>>], 4, Len(data) - 1).matches

HasMarker(bytes) == \E i \in 1..Len(bytes) : bytes[i] = 255

\* C37: for a byte sequence b with no byte 0xFF, every match of compress(b)
\* has a length of 3..18 and a distance of 1..4096 that does not reach
\* before the start of the output, no 0xFF of the stream is read as a
\* literal, and decompress(compress(b)) = b.
C37_RoundTripWithoutMarker ==
  ~HasMarker(lz.input)
    => /\ lz.pc = "compressed"
            => LET matches == readMatches(lz.data)
               IN /\ \A k \in 1..Len(matches) :
                        /\ matches[k].length \in 3..lookaheadSize
                        /\ matches[k].distance \in 1..windowSize
                        /\ matches[k].distance <= matches[k].written
                  /\ Len(lz.data)
                       = 4 + Len(lz.input)
                           - FoldRange(LAMBDA sum, k : sum + matches[k].length - 4,
                                       0, 1, Len(matches))
       /\ lz.pc = "decompressed" => lz.data = lz.input

\* an input longer than the window came back as it was, and its stream
\* holds a match of the greatest length at the greatest distance
C37_Witness ==
  /\ lz.pc = "decompressed" /\ ~HasMarker(lz.input)
  /\ Len(lz.input) > windowSize
  /\ lz.data = lz.input
  /\ LET matches == readMatches(compress(lz.input))
     IN \E k \in 1..Len(matches) :
          /\ matches[k].length = lookaheadSize
          /\ matches[k].distance = windowSize

\* C38: every match compress emits is the longest the window before the
\* cursor offers, and among the window positions that give that length it
\* is the nearest to the cursor.  (For inputs with no byte 0xFF, where the
\* bytes written before a match are the cursor of compress.)
C38_LongestNearest ==
  (lz.pc = "compressed" /\ ~HasMarker(lz.input))
    => LET matches == readMatches(lz.data)
       IN \A k \in 1..Len(matches) :
            LET pos == matches[k].written
            IN \A i \in Max(0, pos - windowSize)..(pos - 1) :
                 LET length == MatchLength(lz.input, i, pos, 0)
                 IN /\ length <= matches[k].length
                    /\ length = matches[k].length => matches[k].distance <= pos - i

\* the original size the header of a stream declares
DeclaredSize(data) == data[1] * 16777216 + data[2] * 65536 + data[3] * 256 + data[4]

\* C36: what decompress returns for a stream has exactly the number of
\* bytes its header declares, and every match it copied lay within the
\* output (a stream cut short, or with a match that starts before the
\* output, returns nothing of the kind: it fails).
C36_DeclaredSizeOrFailure ==
  lz.pc = "unpacked"
    => /\ Len(lz.data) = DeclaredSize(lz.input)
       /\ \A k \in 1..Len(readMatches(lz.input)) :
             readMatches(lz.input)[k].distance <= readMatches(lz.input)[k].written

\* C39: a channel is reported silent exactly when the greater of its two
\* magnitudes is below SIGNAL_THRESHOLD (a magnitude equal to the threshold
\* is a signal); a channel with a signal reports 1 when the magnitude of
\* the upper bin is greater than that of the lower bin, and 0 otherwise.
C39_SilentBelowThreshold ==
  probe.pc = "read"
    => /\ probe.bit = -1 <=> Max(probe.amp0, probe.amp1) < SIGNAL_THRESHOLD
       /\ probe.bit /= -1 => probe.bit = IF probe.amp1 > probe.amp0 THEN 1 ELSE 0

\* a step of powerController.reset(): the monitor's SNR stays, the power is
\* the initial one
IsReset == currentSNR' = currentSNR /\ currentPower' = InitialPower

====
